---- MODULE Spec2Model ----
(***************************************************************************)
(* BakaGit: the GitManager facade (core/git_manager.py) and the MainWindow *)
(* handlers (gui/main_window.py) that drive it, over one working           *)
(* directory.  Text is a sequence of one-character strings, so that        *)
(* str.strip, the branch-name validators and git's own ref-name check are  *)
(* computed character by character.                                        *)
(***************************************************************************)
EXTENDS Integers, Sequences, FiniteSets, TLC

\* ------------------------------------------------------------------ bounds
MaxVersion == 2      \* a file's content is 0 (absent) or a version 1..MaxVersion
MaxCommits == 2      \* commits the repository may hold
MaxBranches == 2     \* local branches the repository may hold
MaxCount == 2        \* largest max_count asked of get_commit_history

MaxRecent == 2

\* ------------------------------------------------------------------ text
Whitespace == {" ", "\t", "\n", "\r"}

RECURSIVE LStrip(_)
LStrip(s) == IF s # <<>> /\ Head(s) \in Whitespace THEN LStrip(Tail(s)) ELSE s

RECURSIVE RStrip(_)
RStrip(s) ==
    IF s # <<>> /\ s[Len(s)] \in Whitespace
    THEN RStrip(SubSeq(s, 1, Len(s) - 1))
    ELSE s

\* Python's str.strip()
Strip(s) == RStrip(LStrip(s))

\* s contains the text t (Python's `t in s`)
Contains(s, t) ==
    \E i \in 1..(Len(s) - Len(t) + 1) : SubSeq(s, i, i + Len(t) - 1) = t

StartsWith(s, t) == Len(s) >= Len(t) /\ SubSeq(s, 1, Len(t)) = t

EndsWith(s, t) == Len(s) >= Len(t) /\ SubSeq(s, Len(s) - Len(t) + 1, Len(s)) = t

\* x is an element of the list l (Python's `x in l`)
InList(x, l) == \E i \in 1..Len(l) : l[i] = x

\* ------------------------------------------------------------------ names
None == "None"

Master == <<"m", "a", "s", "t", "e", "r">>
NDev == <<"d", "e", "v">>
NFeatureX == <<"f", "e", "a", "t", "u", "r", "e", "/", "x">>
NSpace == <<"a", " ", "b">>
NDotDot == <<"a", ".", ".", "b">>
NPadded == <<" ", "d", "e", "v", " ">>
NX == <<"x">>
Origin == <<"o", "r", "i", "g", "i", "n">>

\* every name the model hands to a handler, in the order git lists refs
NameOrder == <<NSpace, NDotDot, NDev, NFeatureX, Master, NX>>

NameSet == {NameOrder[i] : i \in 1..Len(NameOrder)}

\* commit messages typed by the caller
MsgEmpty == <<>>
MsgBlank == <<" ", " ", " ">>
MsgFirst == <<"f", "i", "r", "s", "t">>
MsgPadded == <<" ", "f", "i", "r", "s", "t", "\n">>
Messages == {MsgEmpty, MsgBlank, MsgFirst, MsgPadded}

\* ------------------------------------------------------------------ disk
RepoDir == "/work/r"
PlainDir == "/work/d"
MissingDir == "/nonexistent/path"
Paths == {RepoDir, PlainDir, MissingDir}

\* os.path.dirname
Dirname(path) == IF path = MissingDir THEN "/nonexistent" ELSE "/work"

Files == {"a.txt"}
FileOrder == <<"a.txt">>
Versions == 0..MaxVersion

EmptyTree == [f \in Files |-> 0]
EmptyMap == [x \in {} |-> 0]
EmptyDict == [x \in {} |-> 0]

\* the list of the files of S, in directory order
ListOf(S) == SelectSeq(FileOrder, LAMBDA f : f \in S)

\* the list of the names of S, in ref order
NamesOf(S) == SelectSeq(NameOrder, LAMBDA n : n \in S)

\* what `git init` leaves in .git: an empty index, HEAD -> master, no commit;
\* unmerged is the paths the index holds in conflict stages
FreshGit ==
    [idx |-> EmptyTree, commits |-> <<>>, heads |-> EmptyMap, cur |-> Master,
     tags |-> {}, remotes |-> {}, rrefs |-> {}, lcfg |-> EmptyMap, unmerged |-> {}]

VARIABLES
    kind,       \* kind[p]: "absent", "dir", "repo" or "bare", for every path p
    wt,         \* working tree of RepoDir: wt[f] is the version of f on disk
    git,        \* .git of RepoDir: index, commits, heads, HEAD, tags, remotes
    gcfg,       \* git's global configuration (git config --global)
    repo,       \* GitManager.repo: the path the git.Repo object is on, or None
    repo_path,  \* GitManager.repo_path
    ui,         \* MainWindow's list widgets
    config_manager, \* ConfigManager: its dictionaries and its two files
    dialogs,    \* the clone and init dialogs, their worker threads, a pending pull
    out         \* the last call: its name, arguments, result and what it showed

vars == <<kind, wt, git, gcfg, repo, repo_path, ui, config_manager, dialogs, out>>

\* ------------------------------------------------------------------ git reads
\* repo.head.commit: 0 while HEAD is unborn
HeadCommit(g) == IF g.cur \in DOMAIN g.heads THEN g.heads[g.cur] ELSE 0

HeadTree(g) == IF HeadCommit(g) = 0 THEN EmptyTree ELSE g.commits[HeadCommit(g)].tree

\* repo.untracked_files
Untracked(g, w) == {f \in Files : g.idx[f] = 0 /\ w[f] # 0}

\* repo.index.diff(None): index against working tree, deletions included
Modified(g, w) == {f \in Files : g.idx[f] # 0 /\ w[f] # g.idx[f]}

\* repo.index.diff("HEAD"), defined once HEAD names a commit
Staged(g) == {f \in Files : g.idx[f] # HeadTree(g)[f]}

\* repo.is_dirty(): git diff --cached, then git diff; untracked files not counted
IsDirty(g, w) == (\E f \in Files : g.idx[f] # HeadTree(g)[f]) \/ Modified(g, w) # {}

\* the commits reachable from commit c
RECURSIVE Reach(_, _)
Reach(g, c) ==
    IF c = 0 THEN {}
    ELSE {c} \cup UNION {Reach(g, g.commits[c].parents[i]) :
                            i \in 1..Len(g.commits[c].parents)}

\* the largest k elements of a set of commits, newest (largest) first
RECURSIVE NewestFirst(_, _)
NewestFirst(S, k) ==
    IF S = {} \/ k = 0 THEN <<>>
    ELSE LET m == CHOOSE x \in S : \A y \in S : y <= x
         IN  <<m>> \o NewestFirst(S \ {m}, k - 1)

\* len(commit.stats.files): paths that differ from the first parent
FilesChanged(g, c) ==
    LET base == IF g.commits[c].parents = <<>> THEN EmptyTree
                ELSE g.commits[g.commits[c].parents[1]].tree
    IN  Cardinality({f \in Files : g.commits[c].tree[f] # base[f]})

\* ------------------------------------------------------------------ results
\* the record a call leaves behind: `was` is GitManager.repo when it was made,
\* `tool` whether the call reached GitPython or the git executable, `msgs` the
\* message boxes a handler showed, `seen` what get_status said of each file
\* when a staging handler was entered (for a clone, whether the server was
\* contacted), `refreshed` how many times the handler called refresh_repository
Ret(op, arg, val, tool) ==
    [op |-> op, arg |-> arg, val |-> val, tool |-> tool, was |-> repo, msgs |-> {},
     seen |-> EmptyMap, refreshed |-> 0]

\* `if not self.repo`
Unbound == repo = None

\* ------------------------------------------------------------------ status
SubQueries ==
    {"is_dirty", "untracked_files", "modified_files", "current_branch",
     "staged_files", "local_branches", "remote_branches"}

\* the sub-queries evaluated inside the outer try only
OuterQueries == {"is_dirty", "untracked_files", "modified_files"}

\* ref.name of a remote-tracking ref of branch b
RemoteRefName(b) == Origin \o <<"/">> \o b

\* the dictionary get_status builds when the sub-queries of `fails` raise
StatusDict(g, w, fails) ==
    IF fails \cap OuterQueries # {} THEN EmptyDict
    ELSE
    [is_dirty |-> IsDirty(g, w),
     untracked_files |-> ListOf(Untracked(g, w)),
     modified_files |-> ListOf(Modified(g, w)),
     current_branch |-> IF "current_branch" \in fails THEN Master ELSE g.cur,
     staged_files |->
        IF "staged_files" \in fails \/ HeadCommit(g) = 0 THEN <<>>
        ELSE ListOf(Staged(g)),
     local_branches |->
        IF "local_branches" \in fails THEN <<>> ELSE NamesOf(DOMAIN g.heads),
     remote_branches |->
        IF "remote_branches" \in fails \/ g.remotes = {} THEN <<>>
        ELSE [i \in 1..Len(NamesOf(g.rrefs)) |-> RemoteRefName(NamesOf(g.rrefs)[i])]]

\* dict.get(key, default)
Get(d, key, default) == IF key \in DOMAIN d THEN d[key] ELSE default

\* ------------------------------------------------------------------ history
\* the record with the message as stored, not stripped
CommitRecordRaw(g, c) ==
    [hash |-> c,
     message |-> g.commits[c].message,
     author |-> g.commits[c].author,
     files_changed |-> FilesChanged(g, c)]

CommitRecord(g, c) ==
    [hash |-> c,
     message |-> Strip(g.commits[c].message),
     author |-> g.commits[c].author,
     files_changed |-> FilesChanged(g, c)]

\* get_commit_history with max_count not handed on to git
HistoryListUnbounded(g, max_count) ==
    IF HeadCommit(g) = 0 THEN <<>>
    ELSE LET ids == NewestFirst(Reach(g, HeadCommit(g)), Len(g.commits))
         IN  [i \in 1..Len(ids) |-> CommitRecord(g, ids[i])]

\* the list get_commit_history(max_count) builds: iter_commits hands
\* --max-count=<max_count> to git rev-list, 0 included; iter_commits raises
\* while HEAD is unborn and the handler answers []
HistoryList(g, max_count) ==
    IF HeadCommit(g) = 0 THEN <<>>
    ELSE LET ids == NewestFirst(Reach(g, HeadCommit(g)), max_count)
         IN  [i \in 1..Len(ids) |-> CommitRecord(g, ids[i])]

\* ------------------------------------------------------------------ environment
\* the user's editor writes, creates or deletes a file of the working directory
ExternalEdit(f, v) ==
    /\ v # wt[f]
    /\ wt' = [wt EXCEPT ![f] = v]
    /\ config_manager' = config_manager
    /\ dialogs' = dialogs
    /\ out' = Ret("external_edit", <<f, v>>, TRUE, FALSE)
    /\ UNCHANGED <<kind, git, gcfg, repo, repo_path, ui>>

\* a merge run outside the application (git merge or git pull in a terminal)
\* that stops on a conflict in path f: the index holds f unmerged and the file
\* on disk holds the conflict markers
ExternalMergeConflict(f, v) ==
    /\ kind[RepoDir] = "repo"
    /\ HeadCommit(git) # 0
    /\ HeadTree(git)[f] # 0
    /\ git.unmerged = {}
    /\ git' = [git EXCEPT !.unmerged = {f}]
    /\ wt' = [wt EXCEPT ![f] = v]
    /\ config_manager' = config_manager
    /\ dialogs' = dialogs
    /\ out' = Ret("external_merge", <<f, v>>, TRUE, FALSE)
    /\ UNCHANGED <<kind, gcfg, repo, repo_path, ui>>

\* ------------------------------------------------------------------ the Handle
\* load_repository with the except branch leaving the attributes as they were
LoadRepositoryKeepsBinding(path) ==
    /\ IF kind[path] \in {"repo", "bare"}
       THEN /\ repo' = path
            /\ repo_path' = path
            /\ config_manager' = config_manager
            /\ dialogs' = dialogs
            /\ out' = Ret("load_repository", path, TRUE, TRUE)
       ELSE /\ UNCHANGED <<repo, repo_path>>
            /\ config_manager' = config_manager
            /\ dialogs' = dialogs
            /\ out' = Ret("load_repository", path, FALSE, TRUE)
    /\ UNCHANGED <<kind, wt, git, gcfg, ui>>

\* load_repository refusing a repository without a working tree
LoadRepositoryNoBare(path) ==
    /\ IF kind[path] = "repo"
       THEN /\ repo' = path
            /\ repo_path' = path
            /\ config_manager' = config_manager
            /\ dialogs' = dialogs
            /\ out' = Ret("load_repository", path, TRUE, TRUE)
       ELSE /\ repo' = None
            /\ repo_path' = None
            /\ config_manager' = config_manager
            /\ dialogs' = dialogs
            /\ out' = Ret("load_repository", path, FALSE, TRUE)
    /\ UNCHANGED <<kind, wt, git, gcfg, ui>>

LoadRepository(path) ==
    /\ IF kind[path] \in {"repo", "bare"}
       THEN /\ repo' = path
            /\ repo_path' = path
            /\ config_manager' = config_manager
            /\ dialogs' = dialogs
            /\ out' = Ret("load_repository", path, TRUE, TRUE)
       ELSE /\ repo' = None
            /\ repo_path' = None
            /\ config_manager' = config_manager
            /\ dialogs' = dialogs
            /\ out' = Ret("load_repository", path, FALSE, TRUE)
    /\ UNCHANGED <<kind, wt, git, gcfg, ui>>

\* init_repository returning True with the attributes left as they were
InitRepositoryNoLoad(path, bare, toolOk) ==
    /\ IF toolOk
       THEN /\ kind' = [kind EXCEPT
                            ![path] = IF bare \/ @ = "bare" THEN "bare" ELSE "repo",
                            ![Dirname(path)] = "dir"]
            /\ git' = IF path # RepoDir \/ kind[path] \in {"repo", "bare"} THEN git
                      ELSE FreshGit
            /\ config_manager' = config_manager
            /\ dialogs' = dialogs
            /\ out' = Ret("init_repository", path, TRUE, TRUE)
       ELSE /\ kind' = [kind EXCEPT ![path] = IF @ = "absent" THEN "dir" ELSE @,
                                    ![Dirname(path)] = "dir"]
            /\ config_manager' = config_manager
            /\ dialogs' = dialogs
            /\ out' = Ret("init_repository", path, FALSE, TRUE)
            /\ git' = git
    /\ UNCHANGED <<wt, gcfg, ui, repo, repo_path>>

\* init_repository(path, bare): os.makedirs(path), `git init` or `git init
\* --bare` inside it, then load_repository(path); toolOk is git's return code
\* being 0.  A directory git made bare is "bare" in kind: git.Repo opens it,
\* and goes on opening it as bare after a later plain `git init`
InitRepositoryState(path, bare, toolOk) ==
    IF toolOk
    THEN /\ kind' = [kind EXCEPT
                         ![path] = IF bare \/ @ = "bare" THEN "bare" ELSE "repo",
                         ![Dirname(path)] = "dir"]
         /\ git' = IF path # RepoDir \/ kind[path] \in {"repo", "bare"} THEN git
                   ELSE FreshGit
         /\ repo' = path
         /\ repo_path' = path
    ELSE /\ kind' = [kind EXCEPT ![path] = IF @ = "absent" THEN "dir" ELSE @,
                                 ![Dirname(path)] = "dir"]
         /\ UNCHANGED <<git, repo, repo_path>>

InitRepository(path, bare, toolOk) ==
    /\ InitRepositoryState(path, bare, toolOk)
    /\ config_manager' = config_manager
    /\ dialogs' = dialogs
    /\ out' = Ret("init_repository", path, toolOk, TRUE)
    /\ UNCHANGED <<wt, gcfg, ui>>

\* ------------------------------------------------------------------ the facade
\* get_status answering from HEAD's tree in place of the index, as a status
\* kept from before the index was written would
GetStatusStale(fails) ==
    /\ config_manager' = config_manager
    /\ dialogs' = dialogs
    /\ out' = IF Unbound THEN Ret("get_status", fails, EmptyDict, FALSE)
              ELSE Ret("get_status", fails,
                       StatusDict([git EXCEPT !.idx = HeadTree(git)], wt, fails), TRUE)
    /\ UNCHANGED <<kind, wt, git, gcfg, repo, repo_path, ui>>

GetStatus(fails) ==
    /\ config_manager' = config_manager
    /\ dialogs' = dialogs
    /\ out' = IF Unbound THEN Ret("get_status", fails, EmptyDict, FALSE)
              ELSE Ret("get_status", fails, StatusDict(git, wt, fails), TRUE)
    /\ UNCHANGED <<kind, wt, git, gcfg, repo, repo_path, ui>>

\* repo.index.add(paths): every path must be a file on disk, or nothing is added;
\* an added path is no longer in conflict
IndexAdd(g, w, paths) ==
    [g EXCEPT !.idx = [f \in Files |-> IF f \in paths THEN w[f] ELSE @[f]],
              !.unmerged = @ \ paths]

AddFiles(paths) ==
    /\ IF Unbound
       THEN /\ config_manager' = config_manager
            /\ dialogs' = dialogs
            /\ out' = Ret("add_files", paths, FALSE, FALSE)
            /\ git' = git
       ELSE IF \E f \in paths : wt[f] = 0
       THEN /\ config_manager' = config_manager
            /\ dialogs' = dialogs
            /\ out' = Ret("add_files", paths, FALSE, TRUE)
            /\ git' = git
       ELSE /\ config_manager' = config_manager
            /\ dialogs' = dialogs
            /\ out' = Ret("add_files", paths, TRUE, TRUE)
            /\ git' = IndexAdd(git, wt, paths)
    /\ UNCHANGED <<kind, wt, gcfg, repo, repo_path, ui>>

\* repo.git.add('.'): the index takes the whole working tree, deletions included
StageAll ==
    /\ IF Unbound
       THEN /\ config_manager' = config_manager
            /\ dialogs' = dialogs
            /\ out' = Ret("stage_all", <<>>, FALSE, FALSE)
            /\ git' = git
       ELSE /\ config_manager' = config_manager
            /\ dialogs' = dialogs
            /\ out' = Ret("stage_all", <<>>, TRUE, TRUE)
            /\ git' = [git EXCEPT !.idx = wt, !.unmerged = {}]
    /\ UNCHANGED <<kind, wt, gcfg, repo, repo_path, ui>>

\* the author GitPython takes when index.commit is given none: user.name and
\* user.email of git's configuration, and the login name and host where they
\* are not set
DefaultActor == "configured"

\* repo.index.commit(message, author=..., parent_commits=...): a commit of the
\* index on top of the given parents, and the current branch moved to it
IndexCommit(g, message, author, parents) ==
    LET c == [tree |-> g.idx, parents |-> parents, message |-> message, author |-> author]
        n == Len(g.commits) + 1
    IN  [g EXCEPT !.commits = Append(@, c),
                  !.heads = [b \in DOMAIN @ \cup {g.cur} |-> IF b = g.cur THEN n ELSE @[b]]]

HeadParents(g) == IF HeadCommit(g) = 0 THEN <<>> ELSE <<HeadCommit(g)>>

\* commit(message, author_name, author_email); index.commit cannot write the
\* tree of an index that holds a path in conflict
Commit(message, author_name, author_email) ==
    /\ IF Unbound
       THEN /\ config_manager' = config_manager
            /\ dialogs' = dialogs
            /\ out' = Ret("commit", <<message, author_name, author_email>>, FALSE, FALSE)
            /\ git' = git
       ELSE IF git.unmerged # {}
       THEN /\ config_manager' = config_manager
            /\ dialogs' = dialogs
            /\ out' = Ret("commit", <<message, author_name, author_email>>, FALSE, TRUE)
            /\ git' = git
       ELSE /\ Len(git.commits) < MaxCommits
            /\ config_manager' = config_manager
            /\ dialogs' = dialogs
            /\ out' = Ret("commit", <<message, author_name, author_email>>, TRUE, TRUE)
            /\ git' = IndexCommit(git, message,
                        IF author_name # None /\ author_email # None
                        THEN <<author_name, author_email>> ELSE DefaultActor,
                        HeadParents(git))
    /\ UNCHANGED <<kind, wt, gcfg, repo, repo_path, ui>>

GetCommitHistory(max_count) ==
    /\ config_manager' = config_manager
    /\ dialogs' = dialogs
    /\ out' = IF Unbound THEN Ret("get_commit_history", max_count, <<>>, FALSE)
              ELSE Ret("get_commit_history", max_count, HistoryList(git, max_count), TRUE)
    /\ UNCHANGED <<kind, wt, git, gcfg, repo, repo_path, ui>>

\* ------------------------------------------------------------------ branches
BadRefChars == {" ", "~", "^", ":", "?", "*", "[", "\\", "\t", "\n", "\r"}

\* git's rule for a branch name (git check-ref-format --branch), which GitPython
\* applies before it writes a ref
GitRefOk(n) ==
    /\ n # <<>>
    /\ \A i \in 1..Len(n) : n[i] \notin BadRefChars
    /\ ~StartsWith(n, <<"/">>) /\ ~EndsWith(n, <<"/">>) /\ ~Contains(n, <<"/", "/">>)
    /\ ~StartsWith(n, <<".">>) /\ ~Contains(n, <<"/", ".">>) /\ ~EndsWith(n, <<".">>)
    /\ ~Contains(n, <<".", ".">>)
    /\ ~Contains(n, <<"@", "{">>) /\ n # <<"@">>
    /\ ~EndsWith(n, <<".", "l", "o", "c", "k">>)
    /\ ~StartsWith(n, <<"-">>)

\* repo.create_head(name) succeeds: HEAD names a commit, the name is a ref name,
\* and no other commit is already under that name
CreateHeadOk(g, name) ==
    /\ HeadCommit(g) # 0
    /\ GitRefOk(name)
    /\ name \in DOMAIN g.heads => g.heads[name] = HeadCommit(g)

CreateHead(g, name) ==
    [g EXCEPT !.heads = [b \in DOMAIN @ \cup {name} |-> IF b = name THEN HeadCommit(g) ELSE @[b]]]

\* `git checkout name` goes through: no path of the index is in conflict, and
\* every path that differs between HEAD and the target is unchanged in the
\* index and on disk, or already as the target
CheckoutOk(g, w, name) ==
    /\ name \in DOMAIN g.heads
    /\ g.unmerged = {}
    /\ LET T == g.commits[g.heads[name]].tree
           H == HeadTree(g)
       IN  \A f \in Files :
               \/ H[f] = T[f]
               \/ g.idx[f] = T[f]
               \/ g.idx[f] = H[f] /\ w[f] = g.idx[f]

\* files `git checkout name` rewrites
CheckoutWrites(g, name) ==
    {f \in Files : HeadTree(g)[f] # g.commits[g.heads[name]].tree[f]
                   /\ g.idx[f] # g.commits[g.heads[name]].tree[f]}

CheckoutGit(g, name) ==
    [g EXCEPT !.cur = name,
              !.idx = [f \in Files |-> IF f \in CheckoutWrites(g, name)
                                        THEN g.commits[g.heads[name]].tree[f] ELSE @[f]]]

CheckoutWt(g, w, name) ==
    [f \in Files |-> IF f \in CheckoutWrites(g, name)
                     THEN g.commits[g.heads[name]].tree[f] ELSE w[f]]

\* create_branch(branch_name, checkout): create_head, then new_branch.checkout()
\* when asked; a checkout that fails leaves the head create_head made
CreateBranch(branch_name, checkout) ==
    /\ IF Unbound
       THEN /\ config_manager' = config_manager
            /\ dialogs' = dialogs
            /\ out' = Ret("create_branch", <<branch_name, checkout>>, FALSE, FALSE)
            /\ UNCHANGED <<git, wt>>
       ELSE IF ~CreateHeadOk(git, branch_name)
       THEN /\ config_manager' = config_manager
            /\ dialogs' = dialogs
            /\ out' = Ret("create_branch", <<branch_name, checkout>>, FALSE, TRUE)
            /\ UNCHANGED <<git, wt>>
       ELSE IF checkout /\ ~CheckoutOk(CreateHead(git, branch_name), wt, branch_name)
       THEN /\ Cardinality(DOMAIN git.heads \cup {branch_name}) <= MaxBranches
            /\ config_manager' = config_manager
            /\ dialogs' = dialogs
            /\ out' = Ret("create_branch", <<branch_name, checkout>>, FALSE, TRUE)
            /\ git' = CreateHead(git, branch_name)
            /\ wt' = wt
       ELSE /\ Cardinality(DOMAIN git.heads \cup {branch_name}) <= MaxBranches
            /\ config_manager' = config_manager
            /\ dialogs' = dialogs
            /\ out' = Ret("create_branch", <<branch_name, checkout>>, TRUE, TRUE)
            /\ git' = IF checkout
                      THEN CheckoutGit(CreateHead(git, branch_name), branch_name)
                      ELSE CreateHead(git, branch_name)
            /\ wt' = wt
    /\ UNCHANGED <<kind, gcfg, repo, repo_path, ui>>

CheckoutBranch(branch_name) ==
    /\ IF Unbound
       THEN /\ config_manager' = config_manager
            /\ dialogs' = dialogs
            /\ out' = Ret("checkout_branch", branch_name, FALSE, FALSE)
            /\ UNCHANGED <<git, wt>>
       ELSE IF ~CheckoutOk(git, wt, branch_name)
       THEN /\ config_manager' = config_manager
            /\ dialogs' = dialogs
            /\ out' = Ret("checkout_branch", branch_name, FALSE, TRUE)
            /\ UNCHANGED <<git, wt>>
       ELSE /\ config_manager' = config_manager
            /\ dialogs' = dialogs
            /\ out' = Ret("checkout_branch", branch_name, TRUE, TRUE)
            /\ git' = CheckoutGit(git, branch_name)
            /\ wt' = CheckoutWt(git, wt, branch_name)
    /\ UNCHANGED <<kind, gcfg, repo, repo_path, ui>>

\* ref.name.split('/')[-1]
RECURSIVE LastSegment(_)
LastSegment(s) ==
    IF Contains(s, <<"/">>) THEN LastSegment(Tail(s)) ELSE s

\* the names get_branches adds for the remote-tracking refs
RemoteShortNames(g) ==
    {LastSegment(RemoteRefName(b)) : b \in {x \in g.rrefs : g.remotes # {}}}

BranchList(g) ==
    NamesOf(DOMAIN g.heads \cup (RemoteShortNames(g) \ {<<"H", "E", "A", "D">>}))

GetBranches ==
    /\ config_manager' = config_manager
    /\ dialogs' = dialogs
    /\ out' = IF Unbound THEN Ret("get_branches", <<>>, <<>>, FALSE)
              ELSE Ret("get_branches", <<>>, BranchList(git), TRUE)
    /\ UNCHANGED <<kind, wt, git, gcfg, repo, repo_path, ui>>

GetCurrentBranch ==
    /\ config_manager' = config_manager
    /\ dialogs' = dialogs
    /\ out' = IF Unbound THEN Ret("get_current_branch", <<>>, <<>>, FALSE)
              ELSE Ret("get_current_branch", <<>>, git.cur, TRUE)
    /\ UNCHANGED <<kind, wt, git, gcfg, repo, repo_path, ui>>

IsGitRepository(path) ==
    /\ config_manager' = config_manager
    /\ dialogs' = dialogs
    /\ out' = Ret("is_git_repository", path, kind[path] \in {"repo", "bare"}, TRUE)
    /\ UNCHANGED <<kind, wt, git, gcfg, repo, repo_path, ui>>

\* ------------------------------------------------------------------ remotes
RemoteUrl == "https://example.com/r.git"

\* what the remote end answers to a push
PushOutcomes == {"ok", "rejected", "network", "auth"}

\* what the remote end answers to a fetch or a pull; the remote holds no commit
\* the repository lacks
FetchOutcomes == {"ok", "network"}

\* remote.push(...) returns without raising: git printed a line for the ref,
\* accepted or rejected
PushReturns(g, branch, outcome) ==
    /\ branch \in DOMAIN g.heads
    /\ outcome \in {"ok", "rejected"}

PushGit(g, branch, outcome) ==
    IF outcome = "ok" THEN [g EXCEPT !.rrefs = @ \cup {branch}] ELSE g

GetRemotes ==
    /\ config_manager' = config_manager
    /\ dialogs' = dialogs
    /\ out' = IF Unbound THEN Ret("get_remotes", <<>>, <<>>, FALSE)
              ELSE Ret("get_remotes", <<>>, NamesOf(git.remotes), TRUE)
    /\ UNCHANGED <<kind, wt, git, gcfg, repo, repo_path, ui>>

\* a push that lets go of the repository when the remote end fails it
PushCallDropsHandle(op, remote_name, branch_name, outcome) ==
    LET b == IF branch_name = None THEN git.cur ELSE branch_name
    IN
    /\ IF Unbound
       THEN /\ config_manager' = config_manager
            /\ dialogs' = dialogs
            /\ out' = Ret(op, <<remote_name, branch_name>>, FALSE, FALSE)
            /\ UNCHANGED <<git, repo, repo_path>>
       ELSE IF remote_name \notin git.remotes \/ ~PushReturns(git, b, outcome)
       THEN /\ config_manager' = config_manager
            /\ dialogs' = dialogs
            /\ out' = Ret(op, <<remote_name, branch_name, outcome>>, FALSE, TRUE)
            /\ git' = git
            /\ repo' = None
            /\ repo_path' = None
       ELSE /\ config_manager' = config_manager
            /\ dialogs' = dialogs
            /\ out' = Ret(op, <<remote_name, branch_name, outcome>>, TRUE, TRUE)
            /\ git' = PushGit(git, b, outcome)
            /\ UNCHANGED <<repo, repo_path>>
    /\ UNCHANGED <<kind, wt, gcfg, ui>>

\* push(remote_name, branch_name) and push_to_remote(remote_name, branch_name);
\* branch_name None stands for the current branch
PushCall(op, remote_name, branch_name, outcome) ==
    LET b == IF branch_name = None THEN git.cur ELSE branch_name
    IN
    /\ IF Unbound
       THEN /\ config_manager' = config_manager
            /\ dialogs' = dialogs
            /\ out' = Ret(op, <<remote_name, branch_name>>, FALSE, FALSE)
            /\ git' = git
       ELSE IF remote_name \notin git.remotes \/ ~PushReturns(git, b, outcome)
       THEN /\ config_manager' = config_manager
            /\ dialogs' = dialogs
            /\ out' = Ret(op, <<remote_name, branch_name, outcome>>, FALSE, TRUE)
            /\ git' = git
       ELSE /\ config_manager' = config_manager
            /\ dialogs' = dialogs
            /\ out' = Ret(op, <<remote_name, branch_name, outcome>>, TRUE, TRUE)
            /\ git' = PushGit(git, b, outcome)
    /\ UNCHANGED <<kind, wt, gcfg, repo, repo_path, ui>>

Push(remote_name, branch_name, outcome) ==
    PushCall("push", remote_name, branch_name, outcome)

PushToRemote(remote_name, branch_name, outcome) ==
    PushCall("push_to_remote", remote_name, branch_name, outcome)

\* pull(remote_name, branch_name) and pull_from_remote(remote_name, branch_name)
PullCall(op, remote_name, branch_name, outcome) ==
    /\ config_manager' = config_manager
    /\ dialogs' = dialogs
    /\ out' = IF Unbound THEN Ret(op, <<remote_name, branch_name>>, FALSE, FALSE)
              ELSE Ret(op, <<remote_name, branch_name, outcome>>,
                       remote_name \in git.remotes /\ outcome = "ok", TRUE)
    /\ UNCHANGED <<kind, wt, git, gcfg, repo, repo_path, ui>>

Pull(remote_name, branch_name, outcome) ==
    PullCall("pull", remote_name, branch_name, outcome)

PullFromRemote(remote_name, branch_name, outcome) ==
    PullCall("pull_from_remote", remote_name, branch_name, outcome)

\* fetch_from_remote(remote_name); seen is what the remote's branches are
FetchFromRemote(remote_name, outcome, seen) ==
    /\ IF Unbound
       THEN /\ config_manager' = config_manager
            /\ dialogs' = dialogs
            /\ out' = Ret("fetch_from_remote", remote_name, FALSE, FALSE)
            /\ git' = git
       ELSE IF remote_name \notin git.remotes \/ outcome # "ok"
       THEN /\ config_manager' = config_manager
            /\ dialogs' = dialogs
            /\ out' = Ret("fetch_from_remote", <<remote_name, outcome>>, FALSE, TRUE)
            /\ git' = git
       ELSE /\ config_manager' = config_manager
            /\ dialogs' = dialogs
            /\ out' = Ret("fetch_from_remote", <<remote_name, outcome>>, TRUE, TRUE)
            /\ git' = [git EXCEPT !.rrefs = @ \cup seen]
    /\ UNCHANGED <<kind, wt, gcfg, repo, repo_path, ui>>

AddRemote(name, url) ==
    /\ IF Unbound
       THEN /\ config_manager' = config_manager
            /\ dialogs' = dialogs
            /\ out' = Ret("add_remote", <<name, url>>, FALSE, FALSE)
            /\ git' = git
       ELSE IF name \in git.remotes
       THEN /\ config_manager' = config_manager
            /\ dialogs' = dialogs
            /\ out' = Ret("add_remote", <<name, url>>, FALSE, TRUE)
            /\ git' = git
       ELSE /\ config_manager' = config_manager
            /\ dialogs' = dialogs
            /\ out' = Ret("add_remote", <<name, url>>, TRUE, TRUE)
            /\ git' = [git EXCEPT !.remotes = @ \cup {name}]
    /\ UNCHANGED <<kind, wt, gcfg, repo, repo_path, ui>>

RemoveRemote(name) ==
    /\ IF Unbound
       THEN /\ config_manager' = config_manager
            /\ dialogs' = dialogs
            /\ out' = Ret("remove_remote", name, FALSE, FALSE)
            /\ git' = git
       ELSE IF name \notin git.remotes
       THEN /\ config_manager' = config_manager
            /\ dialogs' = dialogs
            /\ out' = Ret("remove_remote", name, FALSE, TRUE)
            /\ git' = git
       ELSE /\ config_manager' = config_manager
            /\ dialogs' = dialogs
            /\ out' = Ret("remove_remote", name, TRUE, TRUE)
            /\ git' = [git EXCEPT !.remotes = @ \ {name}, !.rrefs = {}]
    /\ UNCHANGED <<kind, wt, gcfg, repo, repo_path, ui>>

\* ------------------------------------------------------------------ tags
TagNames == {"v1.0"}
TagOrder == <<"v1.0">>

GetTags ==
    /\ config_manager' = config_manager
    /\ dialogs' = dialogs
    /\ out' = IF Unbound THEN Ret("get_tags", <<>>, <<>>, FALSE)
              ELSE Ret("get_tags", <<>>, SelectSeq(TagOrder, LAMBDA t : t \in git.tags), TRUE)
    /\ UNCHANGED <<kind, wt, git, gcfg, repo, repo_path, ui>>

\* create_tag(tag_name, message, commit_hash=None)
CreateTag(tag_name, message) ==
    /\ IF Unbound
       THEN /\ config_manager' = config_manager
            /\ dialogs' = dialogs
            /\ out' = Ret("create_tag", <<tag_name, message>>, FALSE, FALSE)
            /\ git' = git
       ELSE IF HeadCommit(git) = 0 \/ tag_name \in git.tags
       THEN /\ config_manager' = config_manager
            /\ dialogs' = dialogs
            /\ out' = Ret("create_tag", <<tag_name, message>>, FALSE, TRUE)
            /\ git' = git
       ELSE /\ config_manager' = config_manager
            /\ dialogs' = dialogs
            /\ out' = Ret("create_tag", <<tag_name, message>>, TRUE, TRUE)
            /\ git' = [git EXCEPT !.tags = @ \cup {tag_name}]
    /\ UNCHANGED <<kind, wt, gcfg, repo, repo_path, ui>>

DeleteTag(tag_name) ==
    /\ IF Unbound
       THEN /\ config_manager' = config_manager
            /\ dialogs' = dialogs
            /\ out' = Ret("delete_tag", tag_name, FALSE, FALSE)
            /\ git' = git
       ELSE IF tag_name \notin git.tags
       THEN /\ config_manager' = config_manager
            /\ dialogs' = dialogs
            /\ out' = Ret("delete_tag", tag_name, FALSE, TRUE)
            /\ git' = git
       ELSE /\ config_manager' = config_manager
            /\ dialogs' = dialogs
            /\ out' = Ret("delete_tag", tag_name, TRUE, TRUE)
            /\ git' = [git EXCEPT !.tags = @ \ {tag_name}]
    /\ UNCHANGED <<kind, wt, gcfg, repo, repo_path, ui>>

\* push_tag(tag_name, remote_name): remote.push(tag_name)
PushTag(tag_name, remote_name, outcome) ==
    /\ config_manager' = config_manager
    /\ dialogs' = dialogs
    /\ out' = IF Unbound THEN Ret("push_tag", <<tag_name, remote_name>>, FALSE, FALSE)
              ELSE Ret("push_tag", <<tag_name, remote_name, outcome>>,
                       /\ remote_name \in git.remotes
                       /\ tag_name \in git.tags
                       /\ outcome \in {"ok", "rejected"}, TRUE)
    /\ UNCHANGED <<kind, wt, git, gcfg, repo, repo_path, ui>>

\* push_all_tags(remote_name): remote.push(tags=True)
PushAllTags(remote_name, outcome) ==
    /\ config_manager' = config_manager
    /\ dialogs' = dialogs
    /\ out' = IF Unbound THEN Ret("push_all_tags", remote_name, FALSE, FALSE)
              ELSE Ret("push_all_tags", <<remote_name, outcome>>,
                       /\ remote_name \in git.remotes
                       /\ git.tags # {}
                       /\ outcome \in {"ok", "rejected"}, TRUE)
    /\ UNCHANGED <<kind, wt, git, gcfg, repo, repo_path, ui>>

\* ------------------------------------------------------------------ configuration
CfgKeys == {"user.name", "user.email"}
Scopes == {"global", "local", "system"}

\* what git reads in the repository: the global file overridden by .git/config
Merged(g) == [k \in DOMAIN gcfg \cup DOMAIN g.lcfg |-> IF k \in DOMAIN g.lcfg THEN g.lcfg[k] ELSE gcfg[k]]

SetKey(cfg, key, value) == [k \in DOMAIN cfg \cup {key} |-> IF k = key THEN value ELSE cfg[k]]

\* get_config(scope)
GetConfig(scope) ==
    /\ config_manager' = config_manager
    /\ dialogs' = dialogs
    /\ out' = IF scope = "global" THEN Ret("get_config", scope, gcfg, TRUE)
              ELSE IF scope = "local" /\ ~Unbound THEN Ret("get_config", scope, Merged(git), TRUE)
              ELSE Ret("get_config", scope, EmptyDict, FALSE)
    /\ UNCHANGED <<kind, wt, git, gcfg, repo, repo_path, ui>>

\* set_config(key, value, scope)
SetConfig(key, value, scope) ==
    /\ IF scope = "global"
       THEN /\ config_manager' = config_manager
            /\ dialogs' = dialogs
            /\ out' = Ret("set_config", <<key, value, scope>>, TRUE, TRUE)
            /\ gcfg' = SetKey(gcfg, key, value)
            /\ git' = git
       ELSE IF scope = "local" /\ ~Unbound
       THEN /\ config_manager' = config_manager
            /\ dialogs' = dialogs
            /\ out' = Ret("set_config", <<key, value, scope>>, TRUE, TRUE)
            /\ git' = [git EXCEPT !.lcfg = SetKey(@, key, value)]
            /\ gcfg' = gcfg
       ELSE /\ config_manager' = config_manager
            /\ dialogs' = dialogs
            /\ out' = Ret("set_config", <<key, value, scope>>, FALSE, FALSE)
            /\ UNCHANGED <<git, gcfg>>
    /\ UNCHANGED <<kind, wt, repo, repo_path, ui>>

\* the value get_git_config(key, global_config) returns
GitConfigValue(key, global_config) ==
    IF global_config THEN Get(gcfg, key, None)
    ELSE IF Unbound THEN None
    ELSE Get(Merged(git), key, None)

\* get_git_config running `git config key` whether or not a repository is loaded
GetGitConfigNoGuard(key, global_config) ==
    /\ config_manager' = config_manager
    /\ dialogs' = dialogs
    /\ out' = Ret("get_git_config", <<key, global_config>>,
                  IF global_config \/ Unbound THEN Get(gcfg, key, None)
                  ELSE Get(Merged(git), key, None), TRUE)
    /\ UNCHANGED <<kind, wt, git, gcfg, repo, repo_path, ui>>

GetGitConfig(key, global_config) ==
    /\ config_manager' = config_manager
    /\ dialogs' = dialogs
    /\ out' = Ret("get_git_config", <<key, global_config>>,
                  GitConfigValue(key, global_config), global_config \/ ~Unbound)
    /\ UNCHANGED <<kind, wt, git, gcfg, repo, repo_path, ui>>

\* set_git_config(key, value, global_config) and what it returns
SetGitConfigOk(global_config) == global_config \/ ~Unbound

SetGitConfigState(key, value, global_config) ==
    /\ gcfg' = IF global_config THEN SetKey(gcfg, key, value) ELSE gcfg
    /\ git' = IF ~global_config /\ ~Unbound
              THEN [git EXCEPT !.lcfg = SetKey(@, key, value)] ELSE git

SetGitConfig(key, value, global_config) ==
    /\ config_manager' = config_manager
    /\ dialogs' = dialogs
    /\ out' = Ret("set_git_config", <<key, value, global_config>>,
                  SetGitConfigOk(global_config), SetGitConfigOk(global_config))
    /\ SetGitConfigState(key, value, global_config)
    /\ UNCHANGED <<kind, wt, repo, repo_path, ui>>

GetUserInfo ==
    /\ config_manager' = config_manager
    /\ dialogs' = dialogs
    /\ out' = Ret("get_user_info", <<>>,
                  [name |-> GitConfigValue("user.name", TRUE),
                   email |-> GitConfigValue("user.email", TRUE),
                   local_name |-> GitConfigValue("user.name", FALSE),
                   local_email |-> GitConfigValue("user.email", FALSE)], TRUE)
    /\ UNCHANGED <<kind, wt, git, gcfg, repo, repo_path, ui>>

\* set_user_info(name, email, global_config): both keys, one after the other
SetUserInfo(name, email, global_config) ==
    /\ config_manager' = config_manager
    /\ dialogs' = dialogs
    /\ out' = Ret("set_user_info", <<name, email, global_config>>,
                  SetGitConfigOk(global_config), SetGitConfigOk(global_config))
    /\ gcfg' = IF global_config
               THEN SetKey(SetKey(gcfg, "user.name", name), "user.email", email) ELSE gcfg
    /\ git' = IF ~global_config /\ ~Unbound
              THEN [git EXCEPT !.lcfg = SetKey(SetKey(@, "user.name", name), "user.email", email)]
              ELSE git
    /\ UNCHANGED <<kind, wt, repo, repo_path, ui>>

\* ------------------------------------------------------------------ ConfigManager
\* two of the sections of default_config, with one key each
ConfigSections == {"ui", "git"}
ConfigKeys == {<<"ui", "theme">>, <<"git", "commit_template">>}
BuiltinDefaults ==
    [s \in ConfigSections |->
        IF s = "ui" THEN [k \in {"theme"} |-> "dark"] ELSE [k \in {"commit_template"} |-> ""]]
ConfigValues(key) == IF key[1] = "ui" THEN {"dark", "light"} ELSE {"", "tmpl"}

\* the dictionary objects: the section dictionaries built in __init__, and the
\* ones _merge_config builds
DefaultRef(s) == <<"default", s>>
MergedRef(s) == <<"merged", s>>

\* _merge_config(default, user) on one section: a new dictionary
MergeConfig(default, user) ==
    [k \in DOMAIN default \cup DOMAIN user |-> IF k \in DOMAIN user THEN user[k] ELSE default[k]]

\* a file of the configuration directory: absent, or holding data
NoFile == [exists |-> FALSE, data |-> <<>>]
FileOf(data) == [exists |-> TRUE, data |-> data]

\* what config.yaml holds after save_config(config)
Dumped(objs, config) == FileOf([s \in DOMAIN config |-> objs[config[s]]])

\* __init__ and load_config: default_config is built, then config is the file
\* merged over it, section by section, or, with no file, default_config.copy(),
\* whose sections are the dictionaries of default_config themselves
LoadConfig(file) ==
    IF ~file.exists
    THEN [objs |-> [r \in {DefaultRef(s) : s \in ConfigSections} |-> BuiltinDefaults[r[2]]],
          config |-> [s \in ConfigSections |-> DefaultRef(s)],
          config_file |-> FileOf(BuiltinDefaults)]
    ELSE [objs |-> [r \in {DefaultRef(s) : s \in ConfigSections} \cup
                          {MergedRef(s) : s \in DOMAIN file.data} |->
                        IF r[1] = "default" THEN BuiltinDefaults[r[2]]
                        ELSE MergeConfig(BuiltinDefaults[r[2]], file.data[r[2]])],
          config |-> [s \in ConfigSections |->
                        IF s \in DOMAIN file.data THEN MergedRef(s) ELSE DefaultRef(s)],
          config_file |-> file]

\* the ConfigManager of a launch that finds the files as they are
Launched(file, recent) ==
    [objs |-> LoadConfig(file).objs, config |-> LoadConfig(file).config,
     config_file |-> LoadConfig(file).config_file, recent_repos_file |-> recent]

\* the application is started again
ConfigManagerInit ==
    /\ config_manager' = Launched(config_manager.config_file, config_manager.recent_repos_file)
    /\ dialogs' = dialogs
    /\ out' = Ret("ConfigManager", <<>>, TRUE, FALSE)
    /\ UNCHANGED <<kind, wt, git, gcfg, repo, repo_path, ui>>

\* get(key): the value under config[section][name]
ConfigValue(cm, key) == cm.objs[cm.config[key[1]]][key[2]]

ConfigManagerGet(key) ==
    /\ dialogs' = dialogs
    /\ out' = Ret("get", key, ConfigValue(config_manager, key), FALSE)
    /\ UNCHANGED <<kind, wt, git, gcfg, repo, repo_path, ui, config_manager>>

\* set(key, value): config[section][name] = value, in memory
ConfigManagerSet(key, value) ==
    /\ config_manager' =
         [config_manager EXCEPT !.objs[config_manager.config[key[1]]][key[2]] = value]
    /\ dialogs' = dialogs
    /\ out' = Ret("set", <<key, value>>, TRUE, FALSE)
    /\ UNCHANGED <<kind, wt, git, gcfg, repo, repo_path, ui>>

SaveConfig ==
    /\ config_manager' =
         [config_manager EXCEPT !.config_file = Dumped(config_manager.objs, config_manager.config)]
    /\ dialogs' = dialogs
    /\ out' = Ret("save_config", <<>>, TRUE, FALSE)
    /\ UNCHANGED <<kind, wt, git, gcfg, repo, repo_path, ui>>

\* reset_to_defaults: config = default_config.copy(), then save_config()
ResetToDefaults ==
    /\ LET objs == [r \in {DefaultRef(s) : s \in ConfigSections} |-> config_manager.objs[r]]
           config == [s \in ConfigSections |-> DefaultRef(s)]
       IN  config_manager' =
             [config_manager EXCEPT !.objs = objs, !.config = config,
                                    !.config_file = Dumped(objs, config)]
    /\ dialogs' = dialogs
    /\ out' = Ret("reset_to_defaults", <<>>, TRUE, FALSE)
    /\ UNCHANGED <<kind, wt, git, gcfg, repo, repo_path, ui>>

\* max_count of add_recent_repository when the caller gives none
DefaultMaxCount == 10

\* list.remove(x): the first occurrence
RemoveFirst(l, x) ==
    IF ~InList(x, l) THEN l
    ELSE LET i == CHOOSE j \in 1..Len(l) : l[j] = x /\ \A k \in 1..(j - 1) : l[k] # x
         IN  SubSeq(l, 1, i - 1) \o SubSeq(l, i + 1, Len(l))

\* l[:k]
Slice(l, k) == IF k >= 0 THEN SubSeq(l, 1, IF k < Len(l) THEN k ELSE Len(l))
               ELSE SubSeq(l, 1, IF Len(l) + k > 0 THEN Len(l) + k ELSE 0)

\* get_recent_repositories(): the list of the file, [] without a file
RecentRepositories(cm) == IF cm.recent_repos_file.exists THEN cm.recent_repos_file.data ELSE <<>>

GetRecentRepositories ==
    /\ dialogs' = dialogs
    /\ out' = Ret("get_recent_repositories", <<>>, RecentRepositories(config_manager), FALSE)
    /\ UNCHANGED <<kind, wt, git, gcfg, repo, repo_path, ui, config_manager>>

\* add_recent_repository inserting without removing the path first
RecentAddedNoRemove(cm, repo_path_, max_count) ==
    [cm EXCEPT !.recent_repos_file =
        FileOf(Slice(<<repo_path_>> \o RecentRepositories(cm), max_count))]

\* the ConfigManager after add_recent_repository(repo_path, max_count)
RecentAdded(cm, repo_path_, max_count) ==
    [cm EXCEPT !.recent_repos_file =
        FileOf(Slice(<<repo_path_>> \o RemoveFirst(RecentRepositories(cm), repo_path_), max_count))]

AddRecentRepository(repo_path_, max_count) ==
    /\ config_manager' = RecentAdded(config_manager, repo_path_, max_count)
    /\ dialogs' = dialogs
    /\ out' = Ret("add_recent_repository", <<repo_path_, max_count>>, TRUE, FALSE)
    /\ UNCHANGED <<kind, wt, git, gcfg, repo, repo_path, ui>>

\* remove_recent_repository(repo_path): the file is written only when the path
\* was in the list
RemoveRecentRepository(repo_path_) ==
    /\ config_manager' =
         IF InList(repo_path_, RecentRepositories(config_manager))
         THEN [config_manager EXCEPT !.recent_repos_file = FileOf(RemoveFirst(@.data, repo_path_))]
         ELSE config_manager
    /\ dialogs' = dialogs
    /\ out' = Ret("remove_recent_repository", repo_path_, TRUE, FALSE)
    /\ UNCHANGED <<kind, wt, git, gcfg, repo, repo_path, ui>>

\* ------------------------------------------------------------------ MainWindow
\* The message boxes are named by what they say:
\*   "NotOpen"             warning  '请先打开一个Git仓库'
\*   "InvalidBranchName"   warning  '无效分支名' / '分支名称包含无效字符'
\*   "BranchExists"        warning  '分支已存在' / '名称冲突'
\*   "CannotDeleteCurrent" warning  '无法删除' '不能删除当前分支'
\*   "DirtyWorkingTree"    question '有未提交的更改'
\*   "EmptyMessage"        warning  '请输入提交消息'
\*   "NothingStaged"       warning  '没有暂存的文件可提交' / question '暂存区为空'
\*   "Confirm"             any other question
\*   "Info"                information
\*   "Failed"              the warning or critical box of an operation that failed
Show(op, arg, msgs, tool) ==
    [op |-> op, arg |-> arg, val |-> None, tool |-> tool, was |-> repo, msgs |-> msgs,
     seen |-> EmptyMap, refreshed |-> 0]

\* the record of a handler that called refresh_repository once
Rendered(o) == [o EXCEPT !.refreshed = 1]

\* the text of a branch_list item
ItemText(branch, current) ==
    (IF current THEN <<"*", " ">> ELSE <<" ", " ">>) \o branch

\* str.replace(t, ''), t not empty
RECURSIVE Remove(_, _)
Remove(s, t) ==
    IF s = <<>> THEN <<>>
    ELSE IF StartsWith(s, t) THEN Remove(SubSeq(s, Len(t) + 1, Len(s)), t)
    ELSE <<Head(s)>> \o Remove(Tail(s), t)

\* branch_text.replace('* ', '').replace('  ', '').strip()
BranchOfItem(branch_text) ==
    Strip(Remove(Remove(branch_text, <<"*", " ">>), <<" ", " ">>))

\* branch_text.startswith('* ')
IsCurrentItem(branch_text) == StartsWith(branch_text, <<"*", " ">>)

UpdateFileLists(g, w, u) ==
    LET status == StatusDict(g, w, {})
        news == status.untracked_files
        mods == status.modified_files
    IN  [u EXCEPT
            !.working_files =
                [i \in 1..Len(news) |-> [tag |-> "new", path |-> news[i]]]
                \o [i \in 1..Len(mods) |-> [tag |-> "modified", path |-> mods[i]]],
            !.staged_files = status.staged_files]

UpdateBranchList(g, w, u) ==
    LET status == StatusDict(g, w, {})
        local_branches == status.local_branches
    IN  [u EXCEPT !.branch_list =
            [i \in 1..Len(local_branches) |->
                ItemText(local_branches[i], local_branches[i] = status.current_branch)]]

\* the lists after refresh_repository, r being GitManager.repo
RefreshLists(r, g, w, u) ==
    IF r = None THEN [u EXCEPT !.working_files = <<>>, !.staged_files = <<>>]
    ELSE UpdateBranchList(g, w, UpdateFileLists(g, w, u))

\* the branch selector after refresh_branches
RefreshCombo(r, g, u) ==
    IF r = None THEN u
    ELSE LET branches == BranchList(g)
         IN  [u EXCEPT !.branch_combo = branches,
                       !.combo_text = IF InList(g.cur, branches) THEN g.cur
                                      ELSE IF branches = <<>> THEN <<>>
                                      ELSE branches[1]]

\* the paths shown in working_files, and the branches shown in branch_list
ShownWorking == {ui.working_files[i].path : i \in 1..Len(ui.working_files)}

ShownStaged == {ui.staged_files[i] : i \in 1..Len(ui.staged_files)}

RefreshRepository ==
    /\ ui' = RefreshLists(repo, git, wt, ui)
    /\ config_manager' = config_manager
    /\ dialogs' = dialogs
    /\ out' = Rendered(Show("refresh_repository", <<>>, {}, ~Unbound))
    /\ UNCHANGED <<kind, wt, git, gcfg, repo, repo_path>>

\* open_repository on the directory the file dialog returned; reply answers
\* '是否要在此目录初始化新的Git仓库？', toolOk is git init going through; the
\* directory is a plain one or a repository with a working tree
OpenRepository(path, reply, toolOk) ==
    /\ kind[path] \in {"dir", "repo"}
    /\ IF kind[path] # "repo" /\ ~reply
       THEN /\ config_manager' = config_manager
            /\ dialogs' = dialogs
            /\ out' = Show("open_repository", <<path, reply>>, {"Confirm"}, TRUE)
            /\ UNCHANGED <<kind, git, repo, repo_path, ui>>
       ELSE IF kind[path] # "repo" /\ ~toolOk
       THEN /\ config_manager' = config_manager
            /\ dialogs' = dialogs
            /\ out' = Show("open_repository", <<path, reply>>, {"Confirm", "Failed"},
                           TRUE)
            /\ UNCHANGED <<kind, git, repo, repo_path, ui>>
       ELSE /\ kind' = [kind EXCEPT ![path] = "repo"]
            /\ git' = IF kind[path] = "repo" THEN git ELSE FreshGit
            /\ repo' = path
            /\ repo_path' = path
            /\ ui' = RefreshLists(path, git', wt, ui)
            /\ config_manager' = RecentAdded(config_manager, path, DefaultMaxCount)
            /\ dialogs' = dialogs
            /\ out' = Rendered(Show("open_repository", <<path, reply>>,
                           IF kind[path] = "repo" THEN {} ELSE {"Confirm", "Info"},
                           TRUE))
    /\ UNCHANGED <<wt, gcfg>>

\* the repository directory removed from outside (rm -rf, or between two runs
\* of the application): nothing of it is left on disk
ExternalRemove ==
    /\ kind[RepoDir] = "repo"
    /\ kind' = [kind EXCEPT ![RepoDir] = "absent"]
    /\ wt' = EmptyTree
    /\ git' = FreshGit
    /\ config_manager' = config_manager
    /\ dialogs' = dialogs
    /\ out' = Ret("external_remove", RepoDir, TRUE, FALSE)
    /\ UNCHANGED <<gcfg, repo, repo_path, ui>>

\* on_repo_selected(item): an item of repo_tree, the recent repositories, is
\* clicked; nothing is shown or refreshed when load_repository fails
OnRepoSelected(path) ==
    /\ InList(path, RecentRepositories(config_manager))
    /\ IF kind[path] \in {"repo", "bare"}
       THEN /\ repo' = path
            /\ repo_path' = path
            /\ ui' = RefreshLists(path, git, wt, ui)
            /\ config_manager' = config_manager
            /\ dialogs' = dialogs
            /\ out' = Rendered(Show("on_repo_selected", path, {}, TRUE))
       ELSE /\ repo' = None
            /\ repo_path' = None
            /\ ui' = ui
            /\ config_manager' = config_manager
            /\ dialogs' = dialogs
            /\ out' = Show("on_repo_selected", path, {}, TRUE)
    /\ UNCHANGED <<kind, wt, git, gcfg>>

\* on_repository_cloned(repo_path), the slot of CloneRepositoryDialog's
\* repository_cloned: the path goes to the recent repositories first, then
\* load_repository, and a refresh only when it succeeds
RepositoryCloned(path) ==
    /\ config_manager' = RecentAdded(config_manager, path, DefaultMaxCount)
    /\ IF kind[path] \in {"repo", "bare", "partial"}
       THEN /\ repo' = path
            /\ repo_path' = path
            /\ ui' = RefreshLists(path, git, wt, ui)
       ELSE /\ repo' = None
            /\ repo_path' = None
            /\ ui' = ui

OnRepositoryCloned(path) ==
    /\ RepositoryCloned(path)
    /\ dialogs' = dialogs
    /\ out' = IF kind[path] \in {"repo", "bare", "partial"}
              THEN Rendered(Show("on_repository_cloned", path, {}, TRUE))
              ELSE Show("on_repository_cloned", path, {}, TRUE)
    /\ UNCHANGED <<kind, wt, git, gcfg>>

\* the status lists that hold f: what get_status says f is
Classification(g, w, f) ==
    {q \in {"untracked_files", "modified_files", "staged_files"} :
        InList(f, StatusDict(g, w, {})[q])}

\* add_files(paths) returns True
AddFilesOk(paths) == ~Unbound /\ \A f \in paths : wt[f] # 0

\* stage_file(file_path), from the menu of a working_files item
StageFile(file_path) ==
    /\ file_path \in ShownWorking
    /\ IF AddFilesOk({file_path})
       THEN /\ git' = IndexAdd(git, wt, {file_path})
            /\ ui' = RefreshLists(repo, git', wt, ui)
            /\ config_manager' = config_manager
            /\ dialogs' = dialogs
            /\ out' = Rendered([Show("stage_file", {file_path}, {}, TRUE) EXCEPT
                            !.seen = [f \in {file_path} |-> Classification(git, wt, f)]])
       ELSE /\ config_manager' = config_manager
            /\ dialogs' = dialogs
            /\ out' = Show("stage_file", {file_path}, {"Failed"}, ~Unbound)
            /\ UNCHANGED <<git, ui>>
    /\ UNCHANGED <<kind, wt, gcfg, repo, repo_path>>

\* add_to_staging with the items of working_files that are selected; reply
\* answers '是否要添加所有更改到暂存区？' when none is
AddToStaging(selected, reply) ==
    /\ selected \subseteq ShownWorking
    /\ LET all_files == Untracked(git, wt) \cup Modified(git, wt)
           files == IF selected = {} THEN all_files ELSE selected
           asked == IF selected = {} THEN {"Confirm"} ELSE {}
       IN  IF Unbound
           THEN /\ config_manager' = config_manager
                /\ dialogs' = dialogs
                /\ out' = Show("add_to_staging", selected, {"NotOpen"}, FALSE)
                /\ UNCHANGED <<git, ui>>
           ELSE IF selected = {} /\ ~reply
           THEN /\ config_manager' = config_manager
                /\ dialogs' = dialogs
                /\ out' = Show("add_to_staging", selected, asked, FALSE)
                /\ UNCHANGED <<git, ui>>
           ELSE IF files = {}
           THEN /\ config_manager' = config_manager
                /\ dialogs' = dialogs
                /\ out' = Show("add_to_staging", selected, asked \cup {"Info"}, TRUE)
                /\ UNCHANGED <<git, ui>>
           ELSE IF AddFilesOk(files)
           THEN /\ git' = IndexAdd(git, wt, files)
                /\ ui' = RefreshLists(repo, git', wt, ui)
                /\ config_manager' = config_manager
                /\ dialogs' = dialogs
                /\ out' = Rendered([Show("add_to_staging", files, asked, TRUE) EXCEPT
                                !.seen = [f \in files |-> Classification(git, wt, f)]])
           ELSE /\ config_manager' = config_manager
                /\ dialogs' = dialogs
                /\ out' = Show("add_to_staging", files, asked \cup {"Failed"}, TRUE)
                /\ UNCHANGED <<git, ui>>
    /\ UNCHANGED <<kind, wt, gcfg, repo, repo_path>>

StageAllFiles ==
    /\ IF Unbound
       THEN /\ config_manager' = config_manager
            /\ dialogs' = dialogs
            /\ out' = Show("stage_all_files", <<>>, {"Failed"}, FALSE)
            /\ UNCHANGED <<git, ui>>
       ELSE /\ git' = [git EXCEPT !.idx = wt, !.unmerged = {}]
            /\ ui' = RefreshLists(repo, git', wt, ui)
            /\ config_manager' = config_manager
            /\ dialogs' = dialogs
            /\ out' = Rendered(Show("stage_all_files", <<>>, {}, TRUE))
    /\ UNCHANGED <<kind, wt, gcfg, repo, repo_path>>

\* repo.index.reset(paths=...) and `git reset HEAD <path>`: the index entries of
\* paths become HEAD's; both read HEAD's tree and raise while HEAD is unborn
IndexResetOk(g) == ~Unbound /\ HeadCommit(g) # 0

IndexReset(g, paths) ==
    [g EXCEPT !.idx = [f \in Files |-> IF f \in paths THEN HeadTree(g)[f] ELSE @[f]]]

UnstageAllFiles ==
    /\ IF IndexResetOk(git)
       THEN /\ git' = IndexReset(git, Files)
            /\ ui' = RefreshLists(repo, git', wt, ui)
            /\ config_manager' = config_manager
            /\ dialogs' = dialogs
            /\ out' = Rendered(Show("unstage_all_files", Files, {}, TRUE))
       ELSE /\ config_manager' = config_manager
            /\ dialogs' = dialogs
            /\ out' = Show("unstage_all_files", Files, {"Failed"}, ~Unbound)
            /\ UNCHANGED <<git, ui>>
    /\ UNCHANGED <<kind, wt, gcfg, repo, repo_path>>

\* unstage_file(file_path), from the menu of a staged_files item
UnstageFile(file_path) ==
    /\ file_path \in ShownStaged
    /\ IF IndexResetOk(git)
       THEN /\ git' = IndexReset(git, {file_path})
            /\ ui' = RefreshLists(repo, git', wt, ui)
            /\ config_manager' = config_manager
            /\ dialogs' = dialogs
            /\ out' = Rendered(Show("unstage_file", {file_path}, {}, TRUE))
       ELSE /\ config_manager' = config_manager
            /\ dialogs' = dialogs
            /\ out' = Show("unstage_file", {file_path}, {"Failed"}, ~Unbound)
            /\ UNCHANGED <<git, ui>>
    /\ UNCHANGED <<kind, wt, gcfg, repo, repo_path>>

\* remove_from_staging with the items of staged_files that are selected
RemoveFromStaging(selected) ==
    /\ selected \subseteq ShownStaged
    /\ IF Unbound
       THEN /\ config_manager' = config_manager
            /\ dialogs' = dialogs
            /\ out' = Show("remove_from_staging", selected, {"NotOpen"}, FALSE)
            /\ UNCHANGED <<git, ui>>
       ELSE IF selected = {}
       THEN /\ config_manager' = config_manager
            /\ dialogs' = dialogs
            /\ out' = Show("remove_from_staging", selected, {"Info"}, FALSE)
            /\ UNCHANGED <<git, ui>>
       ELSE IF IndexResetOk(git)
       THEN /\ git' = IndexReset(git, selected)
            /\ ui' = RefreshLists(repo, git', wt, ui)
            /\ config_manager' = config_manager
            /\ dialogs' = dialogs
            /\ out' = Rendered(Show("remove_from_staging", selected, {}, TRUE))
       ELSE /\ config_manager' = config_manager
            /\ dialogs' = dialogs
            /\ out' = Show("remove_from_staging", selected, {"Failed"}, TRUE)
            /\ UNCHANGED <<git, ui>>
    /\ UNCHANGED <<kind, wt, gcfg, repo, repo_path>>

\* commit_changes: reply answers '是否要先添加所有更改到暂存区然后提交？', text is
\* the commit_message box, name_in and email_in what the user gives the two
\* input dialogs (None: cancelled or left blank)
CommitChanges(reply, text, name_in, email_in) ==
    /\ LET status == StatusDict(git, wt, {})
           staged_empty == Get(status, "staged_files", <<>>) = <<>>
           all_files == Untracked(git, wt) \cup Modified(git, wt)
           asked == IF staged_empty THEN {"NothingStaged"} ELSE {}
           g1 == IF staged_empty THEN IndexAdd(git, wt, all_files) ELSE git
           commit_message == Strip(text)
           author_name == IF ui.author_name # None THEN ui.author_name ELSE name_in
           author_email == IF ui.author_email # None THEN ui.author_email ELSE email_in
           shown(msgs, tool) == Show("commit_changes", <<text, reply>>, msgs, tool)
       IN  IF Unbound
           THEN /\ config_manager' = config_manager
                /\ dialogs' = dialogs
                /\ out' = shown({"NotOpen"}, FALSE)
                /\ UNCHANGED <<git, ui>>
           ELSE IF staged_empty /\ ~reply
           THEN /\ config_manager' = config_manager
                /\ dialogs' = dialogs
                /\ out' = shown(asked, TRUE)
                /\ UNCHANGED <<git, ui>>
           ELSE IF staged_empty /\ all_files = {}
           THEN /\ config_manager' = config_manager
                /\ dialogs' = dialogs
                /\ out' = shown(asked \cup {"Info"}, TRUE)
                /\ UNCHANGED <<git, ui>>
           ELSE IF staged_empty /\ ~AddFilesOk(all_files)
           THEN /\ config_manager' = config_manager
                /\ dialogs' = dialogs
                /\ out' = shown(asked \cup {"Failed"}, TRUE)
                /\ UNCHANGED <<git, ui>>
           ELSE IF commit_message = <<>>
           THEN /\ config_manager' = config_manager
                /\ dialogs' = dialogs
                /\ out' = shown(asked \cup {"EmptyMessage"}, TRUE)
                /\ git' = g1
                /\ ui' = ui
           ELSE IF author_name = None
           THEN /\ config_manager' = config_manager
                /\ dialogs' = dialogs
                /\ out' = shown(asked, TRUE)
                /\ git' = g1
                /\ ui' = ui
           ELSE IF author_email = None
           THEN /\ config_manager' = config_manager
                /\ dialogs' = dialogs
                /\ out' = shown(asked, TRUE)
                /\ git' = g1
                /\ ui' = [ui EXCEPT !.author_name = author_name]
           ELSE /\ Len(git.commits) < MaxCommits
                /\ config_manager' = config_manager
                /\ dialogs' = dialogs
                /\ out' = Rendered(shown(asked \cup {"Info"}, TRUE))
                /\ git' = IndexCommit(g1, commit_message, <<author_name, author_email>>,
                                      HeadParents(g1))
                /\ ui' = RefreshLists(repo, git', wt,
                            [ui EXCEPT !.author_name = author_name,
                                       !.author_email = author_email])
    /\ UNCHANGED <<kind, wt, gcfg, repo, repo_path>>

\* `git commit --amend -m message`: HEAD's commit replaced by one of the index,
\* with HEAD's parents and author
AmendCommit(g, message) ==
    IndexCommit(g, message, g.commits[HeadCommit(g)].author,
                g.commits[HeadCommit(g)].parents)

\* commit_changes_enhanced: text is the commit_message_enhanced box, amend the
\* amend_commit check box, committerOk whether git can name a committer for
\* --amend (user.email configured, or derivable from the host)
CommitChangesEnhanced(text, amend, committerOk) ==
    /\ LET commit_msg == Strip(text)
           shown(msgs, tool) ==
               Show("commit_changes_enhanced", <<text, amend>>, msgs, tool)
       IN  IF commit_msg = <<>>
           THEN /\ config_manager' = config_manager
                /\ dialogs' = dialogs
                /\ out' = shown({"EmptyMessage"}, FALSE)
                /\ UNCHANGED <<git, ui>>
           ELSE IF Unbound
           THEN /\ config_manager' = config_manager
                /\ dialogs' = dialogs
                /\ out' = shown({"Failed"}, FALSE)
                /\ UNCHANGED <<git, ui>>
           ELSE IF HeadCommit(git) = 0
           THEN /\ config_manager' = config_manager
                /\ dialogs' = dialogs
                /\ out' = shown({"Failed"}, TRUE)
                /\ UNCHANGED <<git, ui>>
           ELSE IF Staged(git) = {} /\ ~amend
           THEN /\ config_manager' = config_manager
                /\ dialogs' = dialogs
                /\ out' = shown({"NothingStaged"}, TRUE)
                /\ UNCHANGED <<git, ui>>
           ELSE IF amend /\ ~committerOk
           THEN /\ config_manager' = config_manager
                /\ dialogs' = dialogs
                /\ out' = shown({"Failed"}, TRUE)
                /\ UNCHANGED <<git, ui>>
           ELSE /\ Len(git.commits) < MaxCommits
                /\ config_manager' = config_manager
                /\ dialogs' = dialogs
                /\ out' = [shown({}, TRUE) EXCEPT !.refreshed = IF amend THEN 1 ELSE 2]
                /\ git' = IF amend THEN AmendCommit(git, commit_msg)
                          ELSE IndexCommit(git, commit_msg, DefaultActor, HeadParents(git))
                /\ ui' = RefreshLists(repo, git', wt, ui)
    /\ UNCHANGED <<kind, wt, gcfg, repo, repo_path>>

\* ------------------------------------------------------------------ branch handlers
InvalidChars == {" ", "~", "^", ":", "?", "*", "[", "\\"}

\* MainWindow._is_valid_branch_name
PrivateIsValidBranchName(name) ==
    /\ \A i \in 1..Len(name) : name[i] \notin InvalidChars
    /\ ~StartsWith(name, <<".">>) /\ ~StartsWith(name, <<"/">>)
    /\ ~EndsWith(name, <<".">>) /\ ~EndsWith(name, <<"/">>)
    /\ ~Contains(name, <<".", ".">>)
    /\ Strip(name) # <<>>

\* the characters of [a-zA-Z0-9._/-]
RegexChars ==
    {"a", "b", "c", "d", "e", "f", "g", "h", "i", "j", "k", "l", "m",
     "n", "o", "p", "q", "r", "s", "t", "u", "v", "w", "x", "y", "z",
     "A", "B", "C", "D", "E", "F", "G", "H", "I", "J", "K", "L", "M",
     "N", "O", "P", "Q", "R", "S", "T", "U", "V", "W", "X", "Y", "Z",
     "0", "1", "2", "3", "4", "5", "6", "7", "8", "9", ".", "_", "/", "-"}

\* MainWindow.is_valid_branch_name: re.match(r'^[a-zA-Z0-9._/-]+$', name)
IsValidBranchName(name) ==
    /\ name # <<>>
    /\ \A i \in 1..Len(name) : name[i] \in RegexChars

\* repo.delete_head(name), `git branch -d name`: git keeps the branch HEAD is
\* on and a branch that is not merged into HEAD
DeleteHeadOk(g, name) ==
    /\ name \in DOMAIN g.heads
    /\ name # g.cur
    /\ g.heads[name] \in Reach(g, HeadCommit(g))

DeleteHead(g, name) == [g EXCEPT !.heads = [b \in DOMAIN @ \ {name} |-> @[b]]]

\* repo.heads[old_name].rename(new_name), `git branch -m old new`
RenameHeadOk(g, old_name, new_name) ==
    /\ old_name \in DOMAIN g.heads
    /\ new_name \notin DOMAIN g.heads
    /\ GitRefOk(new_name)

RenameHead(g, old_name, new_name) ==
    [g EXCEPT !.heads = [b \in (DOMAIN @ \ {old_name}) \cup {new_name} |->
                            IF b = new_name THEN @[old_name] ELSE @[b]],
              !.cur = IF @ = old_name THEN new_name ELSE @]

\* create_branch of the branches tab: text is what the input dialog returns,
\* reply answers '是否在创建分支后切换到该分支？'
MainWindowCreateBranch(text, reply) ==
    /\ LET branch_name == Strip(text)
           shown(msgs, tool) == Show("create_branch", <<text, reply>>, msgs, tool)
       IN  IF Unbound
           THEN /\ config_manager' = config_manager
                /\ dialogs' = dialogs
                /\ out' = shown({"NotOpen"}, FALSE)
                /\ UNCHANGED <<git, ui>>
           ELSE IF branch_name = <<>>
           THEN /\ config_manager' = config_manager
                /\ dialogs' = dialogs
                /\ out' = shown({}, FALSE)
                /\ UNCHANGED <<git, ui>>
           ELSE IF ~PrivateIsValidBranchName(branch_name)
           THEN /\ config_manager' = config_manager
                /\ dialogs' = dialogs
                /\ out' = shown({"InvalidBranchName"}, FALSE)
                /\ UNCHANGED <<git, ui>>
           ELSE IF branch_name \in DOMAIN git.heads
           THEN /\ config_manager' = config_manager
                /\ dialogs' = dialogs
                /\ out' = shown({"BranchExists"}, TRUE)
                /\ UNCHANGED <<git, ui>>
           ELSE IF ~CreateHeadOk(git, branch_name)
           THEN /\ config_manager' = config_manager
                /\ dialogs' = dialogs
                /\ out' = shown({"Confirm", "Failed"}, TRUE)
                /\ UNCHANGED <<git, ui>>
           ELSE /\ Cardinality(DOMAIN git.heads \cup {branch_name}) <= MaxBranches
                /\ config_manager' = config_manager
                /\ dialogs' = dialogs
                /\ out' = Rendered(shown({"Confirm", "Info"}, TRUE))
                /\ git' = IF reply
                          THEN CheckoutGit(CreateHead(git, branch_name), branch_name)
                          ELSE CreateHead(git, branch_name)
                /\ ui' = RefreshLists(repo, git', wt, ui)
    /\ UNCHANGED <<kind, wt, gcfg, repo, repo_path>>

\* create_new_branch of the tool bar and the menu
CreateNewBranch(text) ==
    /\ LET branch_name == Strip(text)
           shown(msgs, tool) == Show("create_new_branch", text, msgs, tool)
       IN  IF Unbound
           THEN /\ config_manager' = config_manager
                /\ dialogs' = dialogs
                /\ out' = shown({"NotOpen"}, FALSE)
                /\ UNCHANGED <<git, ui>>
           ELSE IF branch_name = <<>>
           THEN /\ config_manager' = config_manager
                /\ dialogs' = dialogs
                /\ out' = shown({}, FALSE)
                /\ UNCHANGED <<git, ui>>
           ELSE IF ~IsValidBranchName(branch_name)
           THEN /\ config_manager' = config_manager
                /\ dialogs' = dialogs
                /\ out' = shown({"InvalidBranchName"}, FALSE)
                /\ UNCHANGED <<git, ui>>
           ELSE IF ~CreateHeadOk(git, branch_name)
           THEN /\ config_manager' = config_manager
                /\ dialogs' = dialogs
                /\ out' = shown({"Failed"}, TRUE)
                /\ UNCHANGED <<git, ui>>
           ELSE /\ Cardinality(DOMAIN git.heads \cup {branch_name}) <= MaxBranches
                /\ config_manager' = config_manager
                /\ dialogs' = dialogs
                /\ out' = shown({}, TRUE)
                /\ git' = CheckoutGit(CreateHead(git, branch_name), branch_name)
                /\ ui' = RefreshCombo(repo, git', ui)
    /\ UNCHANGED <<kind, wt, gcfg, repo, repo_path>>

\* create_branch_from, from the menu of item i of branch_list
CreateBranchFrom(i, text) ==
    /\ ~Unbound
    /\ i \in 1..Len(ui.branch_list)
    /\ LET base_branch == BranchOfItem(ui.branch_list[i])
           branch_name == Strip(text)
           g1 == CheckoutGit(git, base_branch)
           w1 == CheckoutWt(git, wt, base_branch)
           shown(msgs, tool) ==
               Show("create_branch_from", <<base_branch, text>>, msgs, tool)
       IN  IF branch_name = <<>>
           THEN /\ config_manager' = config_manager
                /\ dialogs' = dialogs
                /\ out' = shown({}, FALSE)
                /\ UNCHANGED <<git, wt, ui>>
           ELSE IF ~PrivateIsValidBranchName(branch_name)
           THEN /\ config_manager' = config_manager
                /\ dialogs' = dialogs
                /\ out' = shown({"InvalidBranchName"}, FALSE)
                /\ UNCHANGED <<git, wt, ui>>
           ELSE IF ~CheckoutOk(git, wt, base_branch)
           THEN /\ config_manager' = config_manager
                /\ dialogs' = dialogs
                /\ out' = shown({"Failed"}, TRUE)
                /\ UNCHANGED <<git, wt, ui>>
           ELSE IF ~CreateHeadOk(g1, branch_name)
           THEN /\ config_manager' = config_manager
                /\ dialogs' = dialogs
                /\ out' = shown({"Failed"}, TRUE)
                /\ git' = g1
                /\ wt' = w1
                /\ ui' = ui
           ELSE /\ Cardinality(DOMAIN git.heads \cup {branch_name}) <= MaxBranches
                /\ config_manager' = config_manager
                /\ dialogs' = dialogs
                /\ out' = Rendered(shown({}, TRUE))
                /\ git' = CheckoutGit(CreateHead(g1, branch_name), branch_name)
                /\ wt' = w1
                /\ ui' = RefreshLists(repo, git', wt', ui)
    /\ UNCHANGED <<kind, gcfg, repo, repo_path>>

\* rename_branch, from the menu of item i of branch_list
RenameBranch(i, text) ==
    /\ ~Unbound
    /\ i \in 1..Len(ui.branch_list)
    /\ LET old_name == BranchOfItem(ui.branch_list[i])
           new_name == Strip(text)
           shown(msgs, tool) ==
               Show("rename_branch", <<old_name, text>>, msgs, tool)
       IN  IF new_name = <<>> \/ new_name = old_name
           THEN /\ config_manager' = config_manager
                /\ dialogs' = dialogs
                /\ out' = shown({}, FALSE)
                /\ UNCHANGED <<git, ui>>
           ELSE IF ~PrivateIsValidBranchName(new_name)
           THEN /\ config_manager' = config_manager
                /\ dialogs' = dialogs
                /\ out' = shown({"InvalidBranchName"}, FALSE)
                /\ UNCHANGED <<git, ui>>
           ELSE IF new_name \in DOMAIN git.heads
           THEN /\ config_manager' = config_manager
                /\ dialogs' = dialogs
                /\ out' = shown({"BranchExists"}, TRUE)
                /\ UNCHANGED <<git, ui>>
           ELSE IF ~RenameHeadOk(git, old_name, new_name)
           THEN /\ config_manager' = config_manager
                /\ dialogs' = dialogs
                /\ out' = shown({"Failed"}, TRUE)
                /\ UNCHANGED <<git, ui>>
           ELSE /\ config_manager' = config_manager
                /\ dialogs' = dialogs
                /\ out' = Rendered(shown({}, TRUE))
                /\ git' = RenameHead(git, old_name, new_name)
                /\ ui' = RefreshLists(repo, git', wt, ui)
    /\ UNCHANGED <<kind, wt, gcfg, repo, repo_path>>

\* delete_branch of the branches tab with item i of branch_list selected (0: no
\* item); reply answers '确定要删除分支吗？'
DeleteBranch(i, reply) ==
    /\ i \in 0..Len(ui.branch_list)
    /\ LET branch_text == IF i = 0 THEN <<>> ELSE ui.branch_list[i]
           branch_name == BranchOfItem(branch_text)
           shown(msgs, tool) ==
               Show("delete_branch", <<branch_name, reply>>, msgs, tool)
       IN  IF i = 0
           THEN /\ config_manager' = config_manager
                /\ dialogs' = dialogs
                /\ out' = shown({"Info"}, FALSE)
                /\ UNCHANGED <<git, ui>>
           ELSE IF IsCurrentItem(branch_text)
           THEN /\ config_manager' = config_manager
                /\ dialogs' = dialogs
                /\ out' = shown({"CannotDeleteCurrent"}, FALSE)
                /\ UNCHANGED <<git, ui>>
           ELSE IF ~reply
           THEN /\ config_manager' = config_manager
                /\ dialogs' = dialogs
                /\ out' = shown({"Confirm"}, FALSE)
                /\ UNCHANGED <<git, ui>>
           ELSE IF ~Unbound /\ DeleteHeadOk(git, branch_name)
           THEN /\ config_manager' = config_manager
                /\ dialogs' = dialogs
                /\ out' = Rendered(shown({"Confirm"}, TRUE))
                /\ git' = DeleteHead(git, branch_name)
                /\ ui' = RefreshLists(repo, git', wt, ui)
           ELSE /\ config_manager' = config_manager
                /\ dialogs' = dialogs
                /\ out' = shown({"Confirm", "Failed"}, ~Unbound)
                /\ UNCHANGED <<git, ui>>
    /\ UNCHANGED <<kind, wt, gcfg, repo, repo_path>>

\* delete_branch_by_name, from the menu of item i of branch_list, which offers
\* it for the items not marked current
DeleteBranchByName(i, reply) ==
    /\ ~Unbound
    /\ i \in 1..Len(ui.branch_list)
    /\ ~IsCurrentItem(ui.branch_list[i])
    /\ LET branch_name == BranchOfItem(ui.branch_list[i])
           shown(msgs, tool) ==
               Show("delete_branch_by_name", <<branch_name, reply>>, msgs, tool)
       IN  IF ~reply
           THEN /\ config_manager' = config_manager
                /\ dialogs' = dialogs
                /\ out' = shown({"Confirm"}, FALSE)
                /\ UNCHANGED <<git, ui>>
           ELSE IF DeleteHeadOk(git, branch_name)
           THEN /\ config_manager' = config_manager
                /\ dialogs' = dialogs
                /\ out' = Rendered(shown({"Confirm"}, TRUE))
                /\ git' = DeleteHead(git, branch_name)
                /\ ui' = RefreshLists(repo, git', wt, ui)
           ELSE /\ config_manager' = config_manager
                /\ dialogs' = dialogs
                /\ out' = shown({"Confirm", "Failed"}, TRUE)
                /\ UNCHANGED <<git, ui>>
    /\ UNCHANGED <<kind, wt, gcfg, repo, repo_path>>

\* switch_branch, on the branch selector's text changing to branch_name; the
\* call of refresh_file_status, which MainWindow does not define, raises after
\* the checkout and the except branch reports a failure
SwitchBranch(branch_name) ==
    /\ InList(branch_name, ui.branch_combo)
    /\ branch_name # ui.combo_text
    /\ IF Unbound \/ branch_name = git.cur
       THEN /\ config_manager' = config_manager
            /\ dialogs' = dialogs
            /\ out' = Show("switch_branch", branch_name, {}, ~Unbound)
            /\ ui' = [ui EXCEPT !.combo_text = branch_name]
            /\ UNCHANGED <<git, wt>>
       ELSE IF CheckoutOk(git, wt, branch_name)
       THEN /\ config_manager' = config_manager
            /\ dialogs' = dialogs
            /\ out' = Show("switch_branch", branch_name, {"Failed"}, TRUE)
            /\ git' = CheckoutGit(git, branch_name)
            /\ wt' = CheckoutWt(git, wt, branch_name)
            /\ ui' = RefreshCombo(repo, git', ui)
       ELSE /\ config_manager' = config_manager
            /\ dialogs' = dialogs
            /\ out' = Show("switch_branch", branch_name, {"Failed"}, TRUE)
            /\ ui' = RefreshCombo(repo, git, ui)
            /\ UNCHANGED <<git, wt>>
    /\ UNCHANGED <<kind, gcfg, repo, repo_path>>

\* switch_to_branch, from the menu or a double click of item i of branch_list,
\* offered for the items not marked current; reply answers '是否继续？'
SwitchToBranch(i, reply) ==
    /\ i \in 1..Len(ui.branch_list)
    /\ ~IsCurrentItem(ui.branch_list[i])
    /\ LET branch_name == BranchOfItem(ui.branch_list[i])
           asked == IF IsDirty(git, wt) THEN {"DirtyWorkingTree"} ELSE {}
           shown(msgs, tool) ==
               Show("switch_to_branch", <<branch_name, reply>>, msgs, tool)
       IN  IF Unbound
           THEN /\ config_manager' = config_manager
                /\ dialogs' = dialogs
                /\ out' = shown({}, FALSE)
                /\ UNCHANGED <<git, wt, ui>>
           ELSE IF branch_name = git.cur
           THEN /\ config_manager' = config_manager
                /\ dialogs' = dialogs
                /\ out' = shown({"Info"}, TRUE)
                /\ UNCHANGED <<git, wt, ui>>
           ELSE IF IsDirty(git, wt) /\ ~reply
           THEN /\ config_manager' = config_manager
                /\ dialogs' = dialogs
                /\ out' = shown(asked, TRUE)
                /\ UNCHANGED <<git, wt, ui>>
           ELSE IF CheckoutOk(git, wt, branch_name)
           THEN /\ config_manager' = config_manager
                /\ dialogs' = dialogs
                /\ out' = Rendered(shown(asked, TRUE))
                /\ git' = CheckoutGit(git, branch_name)
                /\ wt' = CheckoutWt(git, wt, branch_name)
                /\ ui' = RefreshLists(repo, git', wt', ui)
           ELSE /\ config_manager' = config_manager
                /\ dialogs' = dialogs
                /\ out' = shown(asked \cup {"Failed"}, TRUE)
                /\ UNCHANGED <<git, wt, ui>>
    /\ UNCHANGED <<kind, gcfg, repo, repo_path>>

\* repo.merge_base(a, b)[0]: the newest commit both branches reach, 0 when a
\* name is no branch or the branches share no commit (the call or the [0] raises)
MergeBase(g, a, b) ==
    IF a \notin DOMAIN g.heads \/ b \notin DOMAIN g.heads THEN 0
    ELSE LET common == Reach(g, g.heads[a]) \cap Reach(g, g.heads[b])
         IN  IF common = {} THEN 0 ELSE CHOOSE c \in common : \A d \in common : d <= c

\* index.merge_tree(rhs, base=base) runs `git read-tree --aggressive -i -m base
\* rhs`, the two-tree merge: a path whose index entry is base's takes rhs's, a
\* path that rhs left as in base or that is already as in rhs keeps its entry,
\* and any other path makes the command fail with the index as it was
MergeTreeOk(g, base, rhs) ==
    \A f \in Files :
        \/ g.idx[f] = g.commits[base].tree[f]
        \/ g.commits[base].tree[f] = g.commits[rhs].tree[f]
        \/ g.idx[f] = g.commits[rhs].tree[f]

MergeTree(g, base, rhs) ==
    [g EXCEPT !.idx = [f \in Files |-> IF @[f] = g.commits[base].tree[f]
                                        THEN g.commits[rhs].tree[f] ELSE @[f]]]

\* merge_branch_to_current, from the menu of item i of branch_list, offered for
\* the items not marked current; reply answers '确定要合并吗？'.  After merge_tree
\* the handler reads repo.index.conflicts, an attribute GitPython's IndexFile
\* does not have: the read raises, so neither the '合并冲突' warning nor the
\* merge commit is reached and the except branch reports '合并失败'
MergeBranchToCurrent(i, reply) ==
    /\ ~Unbound
    /\ i \in 1..Len(ui.branch_list)
    /\ ~IsCurrentItem(ui.branch_list[i])
    /\ LET branch_name == BranchOfItem(ui.branch_list[i])
           merge_base == MergeBase(git, git.cur, branch_name)
           shown(msgs, tool) ==
               Show("merge_branch_to_current", <<branch_name, reply>>, msgs, tool)
       IN  IF ~reply
           THEN /\ config_manager' = config_manager
                /\ dialogs' = dialogs
                /\ out' = shown({"Confirm"}, TRUE)
                /\ git' = git
           ELSE IF merge_base = 0 \/ ~MergeTreeOk(git, merge_base, git.heads[branch_name])
           THEN /\ config_manager' = config_manager
                /\ dialogs' = dialogs
                /\ out' = shown({"Confirm", "Failed"}, TRUE)
                /\ git' = git
           ELSE /\ config_manager' = config_manager
                /\ dialogs' = dialogs
                /\ out' = shown({"Confirm", "Failed"}, TRUE)
                /\ git' = MergeTree(git, merge_base, git.heads[branch_name])
    /\ UNCHANGED <<kind, wt, gcfg, repo, repo_path, ui>>

\* ------------------------------------------------------------------ push handlers
\* _do_push, which push_changes schedules once a repository is open and has a
\* remote: git_manager.push() with its defaults, 'origin' and the current
\* branch; outcome is what the remote end answers
DoPush(outcome) ==
    /\ ~Unbound
    /\ git.remotes # {}
    /\ IF Origin \in git.remotes /\ PushReturns(git, git.cur, outcome)
       THEN /\ git' = PushGit(git, git.cur, outcome)
            /\ ui' = RefreshLists(repo, git', wt, ui)
            /\ config_manager' = config_manager
            /\ dialogs' = dialogs
            /\ out' = Rendered(Show("_do_push", <<outcome>>, {"Info"}, TRUE))
       ELSE /\ config_manager' = config_manager
            /\ dialogs' = dialogs
            /\ out' = Show("_do_push", <<outcome>>, {"Failed"}, TRUE)
            /\ UNCHANGED <<git, ui>>
    /\ UNCHANGED <<kind, wt, gcfg, repo, repo_path>>

\* MainWindow.push_to_remote, the push button of the remotes tab, with
\* remote_name the remote push_remote_combo shows and the current branch, the
\* first item of push_branch_combo; success goes to the status bar only
MainWindowPushToRemote(remote_name, outcome) ==
    /\ ~Unbound
    /\ remote_name \in git.remotes
    /\ IF PushReturns(git, git.cur, outcome)
       THEN /\ git' = PushGit(git, git.cur, outcome)
            /\ config_manager' = config_manager
            /\ dialogs' = dialogs
            /\ out' = Show("MainWindow.push_to_remote", <<outcome, remote_name>>, {}, TRUE)
       ELSE /\ git' = git
            /\ config_manager' = config_manager
            /\ dialogs' = dialogs
            /\ out' = Show("MainWindow.push_to_remote", <<outcome, remote_name>>,
                           {"Failed"}, TRUE)
    /\ UNCHANGED <<kind, wt, gcfg, repo, repo_path, ui>>

\* ------------------------------------------------------------------ clone
\* the texts given as repository URL: one that is no URL, the path of the
\* directory RepoDir, and a git:// URL
UrlNotAUrl == <<"n", "o", "t", "-", "a", "-", "u", "r", "l">>
UrlLocalPath == <<"/", "w", "o", "r", "k", "/", "r">>
UrlGit == <<"g", "i", "t", ":", "/", "/", "h", "/", "r">>

\* Python's str.lower()
Lower(s) ==
    LET upper == <<"A", "B", "C", "D", "E", "F", "G", "H", "I", "J", "K", "L", "M", "N", "O", "P", "Q", "R", "S", "T", "U", "V", "W", "X", "Y", "Z">>
        lower == <<"a", "b", "c", "d", "e", "f", "g", "h", "i", "j", "k", "l", "m", "n", "o", "p", "q", "r", "s", "t", "u", "v", "w", "x", "y", "z">>
    IN  [i \in 1..Len(s) |->
            IF \E k \in 1..26 : upper[k] = s[i]
            THEN lower[CHOOSE k \in 1..26 : upper[k] = s[i]]
            ELSE s[i]]

\* utils.is_valid_git_url: git_patterns
GitPatterns ==
    {<<"h", "t", "t", "p", "s", ":", "/", "/", "g", "i", "t", "h", "u", "b", ".", "c", "o", "m", "/">>,
     <<"h", "t", "t", "p", "s", ":", "/", "/", "g", "i", "t", "l", "a", "b", ".", "c", "o", "m", "/">>,
     <<"h", "t", "t", "p", "s", ":", "/", "/", "b", "i", "t", "b", "u", "c", "k", "e", "t", ".", "o", "r", "g", "/">>,
     <<"g", "i", "t", "@", "g", "i", "t", "h", "u", "b", ".", "c", "o", "m", ":">>,
     <<"g", "i", "t", "@", "g", "i", "t", "l", "a", "b", ".", "c", "o", "m", ":">>,
     <<"g", "i", "t", "@", "b", "i", "t", "b", "u", "c", "k", "e", "t", ".", "o", "r", "g", ":">>,
     <<"h", "t", "t", "p", "s", ":", "/", "/", "g", "i", "t", ".">>,
     <<"g", "i", "t", ":", "/", "/">>,
     <<"s", "s", "h", ":", "/", "/", "g", "i", "t", "@">>}

\* utils.is_valid_git_url
IsValidGitUrl(url) ==
    /\ url # <<>>
    /\ \/ \E pattern \in GitPatterns : Contains(Lower(url), pattern)
       \/ EndsWith(url, <<".", "g", "i", "t">>)

\* any(target_dir.iterdir()) is False: PlainDir holds files, RepoDir holds the
\* files of wt, a directory made by mkdir holds nothing
IsEmptyDir(path) ==
    kind[path] = "dir" /\ path # PlainDir /\ (path = RepoDir => wt = EmptyTree)

\* clone_from with git writing into whatever the destination holds
CloneFromAnyTarget(url, path, reachable) ==
    LET remote == \/ Contains(url, <<":", "/", "/">>)
                  \/ \E i \in 1..Len(url) :
                        url[i] = ":" /\ \A j \in 1..(i - 1) : url[j] # "/"
        src == IF url = UrlLocalPath THEN RepoDir ELSE None
        free == TRUE
    IN  [ok |-> /\ free
                /\ IF remote THEN reachable
                   ELSE src # None /\ src # path /\ kind[src] \in {"repo", "bare"},
         net |-> free /\ remote,
         git |-> [FreshGit EXCEPT !.remotes = {Origin}]]

\* git.Repo.clone_from(url, path), reachable being the server answering: git
\* refuses a destination that exists and is not an empty directory, reads a
\* url without "://" and without a colon before its first slash as a path on
\* this disk, and contacts the server otherwise.  ok: the clone went through;
\* net: the server was contacted; git: what the clone of the server's
\* repository, which holds no commit yet, leaves in .git
CloneFrom(url, path, reachable) ==
    LET remote == \/ Contains(url, <<":", "/", "/">>)
                  \/ \E i \in 1..Len(url) :
                        url[i] = ":" /\ \A j \in 1..(i - 1) : url[j] # "/"
        src == IF url = UrlLocalPath THEN RepoDir ELSE None
        free == kind[path] = "absent" \/ IsEmptyDir(path)
    IN  [ok |-> /\ free
                /\ IF remote THEN reachable
                   ELSE src # None /\ src # path /\ kind[src] \in {"repo", "bare"},
         net |-> free /\ remote,
         git |-> [FreshGit EXCEPT !.remotes = {Origin}]]

\* clone_repository(url, target_path)
CloneRepository(url, target_path, reachable) ==
    LET c == CloneFrom(url, target_path, reachable)
    IN  /\ IF c.ok
           THEN /\ kind' = [kind EXCEPT ![target_path] = "repo",
                                        ![Dirname(target_path)] = "dir"]
                /\ git' = IF target_path = RepoDir THEN c.git ELSE git
                /\ wt' = IF target_path = RepoDir THEN HeadTree(c.git) ELSE wt
                /\ repo' = target_path
                /\ repo_path' = target_path
           ELSE UNCHANGED <<kind, git, wt, repo, repo_path>>
        /\ config_manager' = config_manager
        /\ dialogs' = dialogs
        /\ out' = [Ret("clone_repository", <<url, target_path>>, c.ok, TRUE)
                      EXCEPT !.seen = [x \in {"net"} |-> c.net]]
        /\ UNCHANGED <<gcfg, ui>>

\* clone_repository_with_progress(url, path): os.makedirs(parent_dir), then
\* Repo.clone_from, then self.load_repository(path)
CloneRepositoryWithProgress(url, path, reachable) ==
    LET c == CloneFrom(url, path, reachable)
    IN  /\ IF c.ok
           THEN /\ kind' = [kind EXCEPT ![path] = "repo", ![Dirname(path)] = "dir"]
                /\ git' = IF path = RepoDir THEN c.git ELSE git
                /\ wt' = IF path = RepoDir THEN HeadTree(c.git) ELSE wt
                /\ repo' = path
                /\ repo_path' = path
           ELSE /\ kind' = [kind EXCEPT ![Dirname(path)] = "dir"]
                /\ UNCHANGED <<git, wt, repo, repo_path>>
        /\ config_manager' = config_manager
        /\ dialogs' = dialogs
        /\ out' = [Ret("clone_repository_with_progress", <<url, path>>, c.ok, TRUE)
                      EXCEPT !.seen = [x \in {"net"} |-> c.net]]
        /\ UNCHANGED <<gcfg, ui>>

\* CloneWorker.run, the thread the clone dialog starts; it clones through a
\* GitManager of its own and emits finished(success, message).  The messages:
\* "InvalidUrl" for '无效的Git仓库URL', "TargetNotEmpty" for '目标目录不为空',
\* "Cloned" for '仓库克隆成功', "Failed" for '克隆失败'
CloneWorkerRun(url, target_path, reachable) ==
    LET made == [kind EXCEPT ![target_path] = IF @ = "absent" THEN "dir" ELSE @,
                             ![Dirname(target_path)] = "dir"]
        c == CloneFrom(url, target_path, reachable)
        finished(success, message, tool, net) ==
            [Show("clone_worker", <<url, target_path>>, {message}, tool)
                EXCEPT !.val = success, !.seen = [x \in {"net"} |-> net]]
    IN  /\ IF ~IsValidGitUrl(url)
           THEN /\ config_manager' = config_manager
                /\ dialogs' = dialogs
                /\ out' = finished(FALSE, "InvalidUrl", FALSE, FALSE)
                /\ UNCHANGED <<kind, git, wt>>
           ELSE IF kind[target_path] # "absent" /\ ~IsEmptyDir(target_path)
           THEN /\ config_manager' = config_manager
                /\ dialogs' = dialogs
                /\ out' = finished(FALSE, "TargetNotEmpty", FALSE, FALSE)
                /\ UNCHANGED <<kind, git, wt>>
           ELSE IF c.ok
           THEN /\ kind' = [made EXCEPT ![target_path] = "repo"]
                /\ git' = IF target_path = RepoDir THEN c.git ELSE git
                /\ wt' = IF target_path = RepoDir THEN HeadTree(c.git) ELSE wt
                /\ config_manager' = config_manager
                /\ dialogs' = dialogs
                /\ out' = finished(TRUE, "Cloned", TRUE, c.net)
           ELSE /\ kind' = made
                /\ config_manager' = config_manager
                /\ dialogs' = dialogs
                /\ out' = finished(FALSE, "Failed", TRUE, c.net)
                /\ UNCHANGED <<git, wt>>
        /\ UNCHANGED <<gcfg, repo, repo_path, ui>>

\* ------------------------------------------------------------------ dialogs and workers
\* no dialog is open and no worker thread exists
NoDialogs ==
    [clone |-> [open |-> FALSE, clone_btn |-> FALSE, url |-> <<>>, target |-> None,
                worker |-> "none", emitted |-> <<>>],
     init |-> [open |-> FALSE, init_btn |-> FALSE, path |-> None, bare |-> FALSE,
               worker |-> "none", emitted |-> <<>>],
     pull |-> FALSE, aborted |-> FALSE]

\* the main window takes input: no modal dialog is up and the process runs
WindowIdle ==
    /\ ~dialogs.clone.open /\ ~dialogs.init.open /\ ~dialogs.pull /\ ~dialogs.aborted

\* QThread.isRunning() of the two workers
CloneWorkerRunning == dialogs.clone.worker \in {"running", "partial"}
InitWorkerRunning == dialogs.init.worker = "running"

\* MainWindow.clone_repository: a new CloneRepositoryDialog, shown modal; one
\* dialog and one worker are followed at a time
ShowCloneDialog ==
    /\ WindowIdle
    /\ ~CloneWorkerRunning /\ dialogs.clone.emitted = <<>> /\ kind[RepoDir] # "partial"
    /\ dialogs' = [dialogs EXCEPT !.clone = [NoDialogs.clone EXCEPT !.open = TRUE]]
    /\ out' = Show("clone_repository_dialog", <<>>, {}, FALSE)
    /\ UNCHANGED <<kind, wt, git, gcfg, repo, repo_path, ui, config_manager>>

\* validate_inputs, the slot of textChanged of both inputs: the clone button is
\* enabled whenever the texts are valid, a clone running or not
ValidateInputs(url, target) ==
    /\ dialogs.clone.open /\ ~dialogs.aborted
    /\ dialogs' = [dialogs EXCEPT !.clone.url = url, !.clone.target = target,
                                  !.clone.clone_btn = IsValidGitUrl(url)]
    /\ out' = Show("validate_inputs", <<url, target>>, {}, FALSE)
    /\ UNCHANGED <<kind, wt, git, gcfg, repo, repo_path, ui, config_manager>>

\* start_clone: self.clone_worker = CloneWorker(url, target_path), started.  A
\* worker that is still running loses its last reference there, and Qt ends the
\* process when a running QThread is destroyed
StartClone ==
    /\ dialogs.clone.open /\ ~dialogs.aborted
    /\ dialogs.clone.clone_btn
    /\ dialogs' = IF CloneWorkerRunning THEN [dialogs EXCEPT !.aborted = TRUE]
                  ELSE [dialogs EXCEPT !.clone.clone_btn = FALSE, !.clone.worker = "running"]
    /\ out' = Show("start_clone", <<dialogs.clone.url, dialogs.clone.target>>, {}, FALSE)
    /\ UNCHANGED <<kind, wt, git, gcfg, repo, repo_path, ui, config_manager>>

\* CloneWorker.run up to the point where git clone is writing: the checks, the
\* mkdir, and git refusing or failing; finished is emitted to the dialog's
\* thread, where it waits in `emitted`
CloneWorkerBegin(reachable) ==
    LET url == dialogs.clone.url
        target_path == dialogs.clone.target
        made == [kind EXCEPT ![target_path] = IF @ = "absent" THEN "dir" ELSE @,
                             ![Dirname(target_path)] = "dir"]
        c == CloneFrom(url, target_path, reachable)
        ends(message) == [dialogs EXCEPT !.clone.worker = "done",
                                         !.clone.emitted = <<[success |-> FALSE, message |-> message]>>]
    IN  /\ dialogs.clone.worker = "running" /\ ~dialogs.aborted
        /\ IF ~IsValidGitUrl(url)
           THEN /\ dialogs' = ends("InvalidUrl")
                /\ kind' = kind
           ELSE IF kind[target_path] # "absent" /\ ~IsEmptyDir(target_path)
           THEN /\ dialogs' = ends("TargetNotEmpty")
                /\ kind' = kind
           ELSE IF c.ok
           THEN /\ dialogs' = [dialogs EXCEPT !.clone.worker = "partial"]
                /\ kind' = [made EXCEPT ![target_path] = "partial"]
           ELSE /\ dialogs' = ends("Failed")
                /\ kind' = made
        /\ out' = Ret("clone_worker", <<url, target_path>>, TRUE, TRUE)
        /\ UNCHANGED <<wt, git, gcfg, repo, repo_path, ui, config_manager>>

\* git clone completes and CloneWorker.run emits finished(True, ...)
CloneWorkerFinish ==
    LET target_path == dialogs.clone.target
        c == CloneFrom(dialogs.clone.url, target_path, TRUE)
    IN  /\ dialogs.clone.worker = "partial" /\ ~dialogs.aborted
        /\ kind' = [kind EXCEPT ![target_path] = "repo"]
        /\ git' = IF target_path = RepoDir THEN c.git ELSE git
        /\ wt' = IF target_path = RepoDir THEN HeadTree(c.git) ELSE wt
        /\ dialogs' = [dialogs EXCEPT !.clone.worker = "done",
                                      !.clone.emitted = <<[success |-> TRUE, message |-> "Cloned"]>>]
        /\ out' = Ret("clone_worker", <<dialogs.clone.url, target_path>>, TRUE, TRUE)
        /\ UNCHANGED <<gcfg, repo, repo_path, ui, config_manager>>

\* clone_finished(success, message), run in the dialog's thread when the
\* emitted signal is delivered, the dialog shown or not: on success
\* repository_cloned is emitted, which runs on_repository_cloned, and the
\* dialog is accepted
CloneFinished ==
    /\ dialogs.clone.emitted # <<>> /\ ~dialogs.aborted
    /\ LET e == dialogs.clone.emitted[1]
       IN  IF e.success
           THEN /\ RepositoryCloned(dialogs.clone.target)
                /\ dialogs' = [dialogs EXCEPT !.clone.emitted = <<>>, !.clone.clone_btn = TRUE,
                                              !.clone.open = FALSE]
                /\ out' = Rendered(Show("clone_finished", dialogs.clone.target, {"Info"}, TRUE))
           ELSE /\ dialogs' = [dialogs EXCEPT !.clone.emitted = <<>>, !.clone.clone_btn = TRUE]
                /\ out' = Show("clone_finished", dialogs.clone.target, {"Failed"}, TRUE)
                /\ UNCHANGED <<repo, repo_path, ui, config_manager>>
    /\ UNCHANGED <<kind, wt, git, gcfg>>

\* closeEvent as it would be if ending the worker also reported a finished
\* clone to the dialog
CloneCloseEventEmits(reply) ==
    /\ dialogs.clone.open /\ ~dialogs.aborted
    /\ dialogs' = IF ~CloneWorkerRunning THEN [dialogs EXCEPT !.clone.open = FALSE]
                  ELSE IF reply
                  THEN [dialogs EXCEPT !.clone.open = FALSE, !.clone.worker = "terminated",
                                       !.clone.emitted = <<[success |-> TRUE, message |-> "Cloned"]>>]
                  ELSE dialogs
    /\ out' = Show("closeEvent", <<reply>>, IF CloneWorkerRunning THEN {"Confirm"} ELSE {},
                   FALSE)
    /\ UNCHANGED <<kind, wt, git, gcfg, repo, repo_path, ui, config_manager>>

\* closeEvent, from the cancel button or the window's close button; reply
\* answers '克隆操作正在进行中，确定要关闭吗？'.  terminate() ends the thread, not
\* the git process it started
CloneCloseEvent(reply) ==
    /\ dialogs.clone.open /\ ~dialogs.aborted
    /\ dialogs' = IF ~CloneWorkerRunning THEN [dialogs EXCEPT !.clone.open = FALSE]
                  ELSE IF reply
                  THEN [dialogs EXCEPT !.clone.open = FALSE, !.clone.worker = "terminated"]
                  ELSE dialogs
    /\ out' = Show("closeEvent", <<reply>>, IF CloneWorkerRunning THEN {"Confirm"} ELSE {},
                   FALSE)
    /\ UNCHANGED <<kind, wt, git, gcfg, repo, repo_path, ui, config_manager>>

\* the Esc key: QDialog.reject(), which hides the dialog without a close event
CloneDialogReject ==
    /\ dialogs.clone.open /\ ~dialogs.aborted
    /\ dialogs' = [dialogs EXCEPT !.clone.open = FALSE]
    /\ out' = Show("CloneRepositoryDialog.reject", <<>>, {}, FALSE)
    /\ UNCHANGED <<kind, wt, git, gcfg, repo, repo_path, ui, config_manager>>

\* the git process of a terminated worker ends: the clone is complete, or git
\* gave up and removed what it had written
OrphanCloneEnds(ok) ==
    /\ dialogs.clone.worker = "terminated" /\ ~dialogs.aborted
    /\ kind[dialogs.clone.target] = "partial"
    /\ kind' = [kind EXCEPT ![dialogs.clone.target] = IF ok THEN "repo" ELSE "dir"]
    /\ git' = IF ok /\ dialogs.clone.target = RepoDir
              THEN CloneFrom(dialogs.clone.url, dialogs.clone.target, TRUE).git ELSE git
    /\ wt' = IF ok /\ dialogs.clone.target = RepoDir THEN HeadTree(git') ELSE wt
    /\ dialogs' = dialogs
    /\ out' = Ret("git clone", dialogs.clone.target, ok, TRUE)
    /\ UNCHANGED <<gcfg, repo, repo_path, ui, config_manager>>

\* open_repository on a directory that git clone is still writing, or has
\* stopped writing: git.Repo takes it once HEAD, objects and refs are there
\* (isRepo); before that the question '是否要在此目录初始化新的Git仓库？' is
\* asked, and answered with No
OpenCloneTarget(path, isRepo) ==
    /\ WindowIdle
    /\ kind[path] = "partial"
    /\ IF isRepo
       THEN /\ repo' = path
            /\ repo_path' = path
            /\ ui' = RefreshLists(path, git, wt, ui)
            /\ config_manager' = RecentAdded(config_manager, path, DefaultMaxCount)
            /\ out' = Rendered(Show("open_repository", <<path, FALSE>>, {}, TRUE))
       ELSE /\ out' = Show("open_repository", <<path, FALSE>>, {"Confirm"}, TRUE)
            /\ UNCHANGED <<repo, repo_path, ui, config_manager>>
    /\ dialogs' = dialogs
    /\ UNCHANGED <<kind, wt, git, gcfg>>

\* MainWindow.init_repository: InitRepositoryDialog on the window's GitManager
ShowInitDialog ==
    /\ WindowIdle
    /\ ~InitWorkerRunning /\ dialogs.init.emitted = <<>>
    /\ dialogs' = [dialogs EXCEPT !.init = [NoDialogs.init EXCEPT !.open = TRUE,
                                                                   !.init_btn = TRUE]]
    /\ out' = Show("init_repository_dialog", <<>>, {}, FALSE)
    /\ UNCHANGED <<kind, wt, git, gcfg, repo, repo_path, ui, config_manager>>

\* InitRepositoryDialog.init_repository: both buttons disabled, the worker
\* started on full_path
InitDialogStart(full_path, bare) ==
    /\ dialogs.init.open /\ ~dialogs.aborted
    /\ dialogs.init.init_btn
    /\ dialogs' = [dialogs EXCEPT !.init.init_btn = FALSE, !.init.worker = "running",
                                  !.init.path = full_path, !.init.bare = bare]
    /\ out' = Show("InitRepositoryDialog.init_repository", <<full_path, bare>>, {}, FALSE)
    /\ UNCHANGED <<kind, wt, git, gcfg, repo, repo_path, ui, config_manager>>

\* InitRepositoryWorker.run: git_manager.init_repository(repo_path, bare) in
\* the worker's thread, then finished_signal
InitWorkerRun(toolOk) ==
    /\ InitWorkerRunning /\ ~dialogs.aborted
    /\ InitRepositoryState(dialogs.init.path, dialogs.init.bare, toolOk)
    /\ dialogs' = [dialogs EXCEPT !.init.worker = "done",
                                  !.init.emitted = <<[success |-> toolOk, message |-> "Init"]>>]
    /\ out' = Ret("init_worker", dialogs.init.path, toolOk, TRUE)
    /\ UNCHANGED <<wt, gcfg, ui, config_manager>>

\* on_init_finished(success, message) with neither file box ticked: the
\* initial commit (stage_all, then commit(commit_message)) when a message is
\* given and the repository is not bare, repository_initialized, which runs
\* on_repository_initialized, and accept
OnInitFinished(commit_message) ==
    /\ dialogs.init.emitted # <<>> /\ ~dialogs.aborted
    /\ LET e == dialogs.init.emitted[1]
           commits == commit_message # <<>> /\ ~dialogs.init.bare /\ ~Unbound
       IN  IF e.success
           THEN /\ commits => Len(git.commits) < MaxCommits
                /\ git' = IF commits
                          THEN IndexCommit([git EXCEPT !.idx = wt, !.unmerged = {}],
                                           commit_message, DefaultActor, HeadParents(git))
                          ELSE git
                /\ config_manager' =
                      RecentAdded(config_manager, dialogs.init.path, DefaultMaxCount)
                /\ ui' = RefreshLists(repo, git', wt, ui)
                /\ dialogs' = [dialogs EXCEPT !.init.emitted = <<>>, !.init.init_btn = TRUE,
                                              !.init.open = FALSE]
                /\ out' = Rendered(Show("on_init_finished", <<dialogs.init.path, commit_message>>,
                                        {"Info"}, TRUE))
           ELSE /\ dialogs' = [dialogs EXCEPT !.init.emitted = <<>>, !.init.init_btn = TRUE]
                /\ out' = Show("on_init_finished", <<dialogs.init.path, commit_message>>,
                               {"Failed"}, TRUE)
                /\ UNCHANGED <<git, ui, config_manager>>
    /\ UNCHANGED <<kind, wt, gcfg, repo, repo_path>>

\* the Esc key or the window's close button: the dialog has no closeEvent of
\* its own, so it closes with its worker running
InitDialogReject ==
    /\ dialogs.init.open /\ ~dialogs.aborted
    /\ dialogs' = [dialogs EXCEPT !.init.open = FALSE]
    /\ out' = Show("InitRepositoryDialog.reject", <<>>, {}, FALSE)
    /\ UNCHANGED <<kind, wt, git, gcfg, repo, repo_path, ui, config_manager>>

\* pull_changes: the checks, a window-modal progress dialog, and _do_pull left
\* to a timer; reply answers '是否继续？' on a dirty working tree
PullChanges(reply) ==
    /\ WindowIdle
    /\ IF Unbound
       THEN /\ dialogs' = dialogs
            /\ out' = Show("pull_changes", <<reply>>, {"NotOpen"}, FALSE)
       ELSE IF git.remotes = {}
       THEN /\ dialogs' = dialogs
            /\ out' = Show("pull_changes", <<reply>>, {"Failed"}, TRUE)
       ELSE IF IsDirty(git, wt) /\ ~reply
       THEN /\ dialogs' = dialogs
            /\ out' = Show("pull_changes", <<reply>>, {"Confirm"}, TRUE)
       ELSE /\ dialogs' = [dialogs EXCEPT !.pull = TRUE]
            /\ out' = Show("pull_changes", <<reply>>,
                           IF IsDirty(git, wt) THEN {"Confirm"} ELSE {}, TRUE)
    /\ UNCHANGED <<kind, wt, git, gcfg, repo, repo_path, ui, config_manager>>

\* _do_pull: git_manager.pull() in the window's thread, then the refresh and
\* the message
DoPull(outcome) ==
    /\ dialogs.pull /\ ~dialogs.aborted
    /\ dialogs' = [dialogs EXCEPT !.pull = FALSE]
    /\ IF ~Unbound /\ Origin \in git.remotes /\ outcome = "ok"
       THEN /\ ui' = RefreshLists(repo, git, wt, ui)
            /\ out' = Rendered(Show("_do_pull", <<outcome>>, {"Info"}, TRUE))
       ELSE /\ ui' = ui
            /\ out' = Show("_do_pull", <<outcome>>, {"Failed"}, TRUE)
    /\ UNCHANGED <<kind, wt, git, gcfg, repo, repo_path, config_manager>>

\* ------------------------------------------------------------------ Spec
\* the first launch: neither config.yaml nor recent_repos.json exists
FirstLaunch == Launched(NoFile, NoFile)

NoUi ==
    [branch_list |-> <<>>, working_files |-> <<>>, staged_files |-> <<>>,
     branch_combo |-> <<>>, combo_text |-> <<>>,
     author_name |-> None, author_email |-> None]

Init ==
    /\ kind = [p \in Paths \cup {Dirname(q) : q \in Paths} |->
                    IF p \in {MissingDir, Dirname(MissingDir)} THEN "absent" ELSE "dir"]
    /\ wt = EmptyTree
    /\ git = FreshGit
    /\ gcfg = EmptyMap
    /\ repo = None
    /\ repo_path = None
    /\ ui = NoUi
    /\ config_manager = FirstLaunch
    /\ dialogs = NoDialogs
    /\ out = [op |-> "construct", arg |-> None, val |-> TRUE, tool |-> FALSE,
              was |-> None, msgs |-> {}, seen |-> EmptyMap,
              refreshed |-> 0]

InitPaths == {RepoDir}

Next ==
    \/ \E f \in Files, v \in Versions : ExternalEdit(f, v)
    \/ \E p \in Paths : LoadRepository(p)
    \/ \E p \in InitPaths, ok \in BOOLEAN : InitRepository(p, FALSE, ok)
    \/ \E fails \in SUBSET SubQueries : Cardinality(fails) <= 1 /\ GetStatus(fails)
    \/ \E ps \in SUBSET Files : AddFiles(ps)
    \/ StageAll
    \/ \E m \in Messages : Commit(m, "Test User", "test@example.com")
    \/ \E k \in 1..MaxCount : GetCommitHistory(k)

Spec == Init /\ [][Next]_vars

\* every facade operation, the working directory left empty
NextHandle ==
    \/ \E p \in Paths : LoadRepository(p)
    \/ \E p \in InitPaths, ok \in BOOLEAN : InitRepository(p, FALSE, ok)
    \/ \E sc \in Scopes : GetConfig(sc)
    \/ \E p \in Paths : IsGitRepository(p)
    \/ GetStatus({})
    \/ \E ps \in SUBSET Files : AddFiles(ps)
    \/ StageAll
    \/ Commit(MsgFirst, None, None)
    \/ GetCommitHistory(MaxCount)
    \/ \E c \in BOOLEAN : CreateBranch(NDev, c)
    \/ \E b \in {Master, NDev} : CheckoutBranch(b)
    \/ GetBranches
    \/ GetCurrentBranch
    \/ GetRemotes
    \/ AddRemote(Origin, RemoteUrl)
    \/ RemoveRemote(Origin)
    \/ \E o \in PushOutcomes : Push(Origin, None, o)
    \/ \E o \in PushOutcomes : PushToRemote(Origin, None, o)
    \/ \E o \in FetchOutcomes : Pull(Origin, None, o)
    \/ \E o \in FetchOutcomes : PullFromRemote(Origin, None, o)
    \/ \E o \in FetchOutcomes : FetchFromRemote(Origin, o, {NFeatureX})
    \/ GetTags
    \/ \E t \in TagNames : CreateTag(t, None)
    \/ \E t \in TagNames : DeleteTag(t)
    \/ \E t \in TagNames, o \in PushOutcomes : PushTag(t, Origin, o)
    \/ \E o \in PushOutcomes : PushAllTags(Origin, o)
    \/ \E sc \in Scopes : SetConfig("user.name", "alice", sc)
    \/ \E k \in CfgKeys, gl \in BOOLEAN : GetGitConfig(k, gl)
    \/ \E gl \in BOOLEAN : SetGitConfig("user.name", "alice", gl)
    \/ GetUserInfo
    \/ \E gl \in BOOLEAN : SetUserInfo("alice", "alice@example.com", gl)

SpecHandle == Init /\ [][NextHandle]_vars

\* staging, committing and reading back, nothing else
NextCommit ==
    \/ \E f \in Files, v \in Versions : ExternalEdit(f, v)
    \/ InitRepository(RepoDir, FALSE, TRUE)
    \/ \E ps \in SUBSET Files : AddFiles(ps)
    \/ \E m \in Messages : Commit(m, "Test User", "test@example.com")
    \/ GetStatus({})
    \/ \E k \in 0..MaxCount : GetCommitHistory(k)

SpecCommit == Init /\ [][NextCommit]_vars

\* the window's staging and commit handlers over the working directory
TypedMessages == {MsgBlank, MsgPadded}

NextGuiFiles ==
    \/ \E f \in Files, v \in Versions : ExternalEdit(f, v)
    \/ \E reply \in BOOLEAN, ok \in BOOLEAN : OpenRepository(RepoDir, reply, ok)
    \/ OpenRepository(PlainDir, FALSE, TRUE)
    \/ RefreshRepository
    \/ \E f \in Files : StageFile(f)
    \/ \E sel \in SUBSET Files, reply \in BOOLEAN : AddToStaging(sel, reply)
    \/ StageAllFiles
    \/ UnstageAllFiles
    \/ \E f \in Files : UnstageFile(f)
    \/ \E sel \in SUBSET Files : RemoveFromStaging(sel)
    \/ \E reply \in BOOLEAN, m \in TypedMessages, a \in {None, "Test User"},
           e \in {None, "test@example.com"} : CommitChanges(reply, m, a, e)
    \/ \E m \in TypedMessages, amend \in BOOLEAN, ok \in BOOLEAN :
          CommitChangesEnhanced(m, amend, ok)

SpecGuiFiles == Init /\ [][NextGuiFiles]_vars

\* the window's branch handlers over a repository that is opened, edited and
\* committed to
TypedNames == {<<>>, NPadded, NSpace, NDotDot}

NextGuiBranches ==
    \/ \E f \in Files, v \in Versions : ExternalEdit(f, v)
    \/ OpenRepository(RepoDir, TRUE, TRUE)
    \/ RefreshRepository
    \/ CommitChanges(TRUE, MsgPadded, "Test User", "test@example.com")
    \/ \E n \in TypedNames, reply \in BOOLEAN : MainWindowCreateBranch(n, reply)
    \/ \E n \in TypedNames : CreateNewBranch(n)
    \/ \E i \in 1..MaxBranches, n \in TypedNames : CreateBranchFrom(i, n)
    \/ \E i \in 1..MaxBranches, n \in TypedNames : RenameBranch(i, n)
    \/ \E i \in 0..MaxBranches, reply \in BOOLEAN : DeleteBranch(i, reply)
    \/ \E i \in 1..MaxBranches, reply \in BOOLEAN : DeleteBranchByName(i, reply)
    \/ \E n \in NameSet : SwitchBranch(n)
    \/ \E i \in 1..MaxBranches, reply \in BOOLEAN : SwitchToBranch(i, reply)

SpecGuiBranches == Init /\ [][NextGuiBranches]_vars

\* the window's merge handler over a repository another git client left on
\* disk: master and dev on the same commit, or master and dev diverged from a
\* common commit (a.txt edited on master, deleted on dev)
SameTipGit ==
    [FreshGit EXCEPT
        !.commits = <<[tree |-> [f \in Files |-> 1], parents |-> <<>>,
                       message |-> MsgFirst, author |-> DefaultActor]>>,
        !.heads = [b \in {Master, NDev} |-> 1],
        !.idx = [f \in Files |-> 1]]

DivergedGit ==
    [FreshGit EXCEPT
        !.commits = <<[tree |-> [f \in Files |-> 1], parents |-> <<>>,
                       message |-> MsgFirst, author |-> DefaultActor],
                      [tree |-> [f \in Files |-> 2], parents |-> <<1>>,
                       message |-> MsgFirst, author |-> DefaultActor],
                      [tree |-> [f \in Files |-> 0], parents |-> <<1>>,
                       message |-> MsgFirst, author |-> DefaultActor]>>,
        !.heads = [b \in {Master, NDev} |-> IF b = Master THEN 2 ELSE 3],
        !.idx = [f \in Files |-> 2]]

InitMerge ==
    /\ kind = [p \in Paths \cup {Dirname(q) : q \in Paths} |->
                    IF p \in {MissingDir, Dirname(MissingDir)} THEN "absent"
                    ELSE IF p = RepoDir THEN "repo" ELSE "dir"]
    /\ git \in {SameTipGit, DivergedGit}
    /\ wt = HeadTree(git)
    /\ gcfg = EmptyMap
    /\ repo = None
    /\ repo_path = None
    /\ ui = NoUi
    /\ config_manager = FirstLaunch
    /\ dialogs = NoDialogs
    /\ out = [op |-> "construct", arg |-> None, val |-> TRUE, tool |-> FALSE,
              was |-> None, msgs |-> {}, seen |-> EmptyMap,
              refreshed |-> 0]

NextGuiMerge ==
    \/ \E f \in Files, v \in Versions : ExternalEdit(f, v)
    \/ OpenRepository(RepoDir, TRUE, TRUE)
    \/ RefreshRepository
    \/ StageAllFiles
    \/ \E i \in 1..MaxBranches, reply \in BOOLEAN : SwitchToBranch(i, reply)
    \/ \E i \in 1..MaxBranches, reply \in BOOLEAN : MergeBranchToCurrent(i, reply)

SpecGuiMerge == InitMerge /\ [][NextGuiMerge]_vars

\* the three ways into a clone, over every directory and every URL
NextClone ==
    \/ \E f \in Files, v \in Versions : ExternalEdit(f, v)
    \/ \E p \in Paths : LoadRepository(p)
    \/ \E p \in InitPaths, ok \in BOOLEAN : InitRepository(p, FALSE, ok)
    \/ \E url \in {<<>>, UrlNotAUrl, UrlLocalPath, UrlGit}, p \in Paths,
          reachable \in BOOLEAN :
            \/ CloneRepository(url, p, reachable)
            \/ CloneRepositoryWithProgress(url, p, reachable)
            \/ CloneWorkerRun(url, p, reachable)

SpecClone == Init /\ [][NextClone]_vars

\* committing and pushing from the window
NextGuiSync ==
    \/ \E f \in Files, v \in Versions : ExternalEdit(f, v)
    \/ OpenRepository(RepoDir, TRUE, TRUE)
    \/ RefreshRepository
    \/ StageAllFiles
    \/ CommitChanges(TRUE, MsgFirst, "Test User", "test@example.com")
    \/ \E amend \in BOOLEAN : CommitChangesEnhanced(MsgFirst, amend, TRUE)
    \/ AddRemote(Origin, RemoteUrl)
    \/ \E o \in PushOutcomes : DoPush(o)
    \/ \E o \in PushOutcomes : MainWindowPushToRemote(Origin, o)

SpecGuiSync == Init /\ [][NextGuiSync]_vars

\* get_status between the calls that change what it reports; unstaging and
\* branch deletion exist as handlers of the window only
NextStatus ==
    \/ \E f \in Files, v \in Versions : ExternalEdit(f, v)
    \/ InitRepository(RepoDir, FALSE, TRUE)
    \/ \E ps \in SUBSET Files : AddFiles(ps)
    \/ Commit(MsgFirst, "Test User", "test@example.com")
    \/ \E c \in BOOLEAN : CreateBranch(NDev, c)
    \/ \E b \in {Master, NDev} : CheckoutBranch(b)
    \/ UnstageAllFiles
    \/ RefreshRepository
    \/ \E i \in 1..MaxBranches : DeleteBranchByName(i, TRUE)
    \/ GetStatus({})

SpecStatus == Init /\ [][NextStatus]_vars

\* making and opening repositories, bare ones included, in every directory
NextInit ==
    \/ \E p \in Paths, bare \in BOOLEAN, ok \in BOOLEAN : InitRepository(p, bare, ok)
    \/ \E p \in Paths : LoadRepository(p)
    \/ \E p \in Paths : IsGitRepository(p)

SpecInit == Init /\ [][NextInit]_vars

\* every facade operation, the two clone methods included
NextFrame ==
    \/ NextHandle
    \/ \E p \in InitPaths, reachable \in BOOLEAN : CloneRepository(UrlGit, p, reachable)
    \/ \E p \in InitPaths, reachable \in BOOLEAN :
            CloneRepositoryWithProgress(UrlGit, p, reachable)

SpecFrame == Init /\ [][NextFrame]_vars

\* the configuration component on its own
NextConfig ==
    \/ ConfigManagerInit
    \/ \E k \in ConfigKeys : ConfigManagerGet(k)
    \/ \E k \in ConfigKeys : \E v \in ConfigValues(k) : ConfigManagerSet(k, v)
    \/ SaveConfig
    \/ ResetToDefaults
    \/ GetRecentRepositories
    \/ \E p \in Paths, n \in -1..MaxRecent : AddRecentRepository(p, n)
    \/ \E p \in Paths : RemoveRecentRepository(p)

SpecConfig == Init /\ [][NextConfig]_vars


\* branches of a repository whose index may hold a conflict
NextBranches ==
    \/ \E f \in Files, v \in Versions : ExternalEdit(f, v)
    \/ \E f \in Files, v \in 1..MaxVersion : ExternalMergeConflict(f, v)
    \/ InitRepository(RepoDir, FALSE, TRUE)
    \/ \E ps \in SUBSET Files : AddFiles(ps)
    \/ Commit(MsgFirst, "Test User", "test@example.com")
    \/ \E n \in {NDev, NSpace}, c \in BOOLEAN : CreateBranch(n, c)
    \/ \E b \in {Master, NDev} : CheckoutBranch(b)

SpecBranches == Init /\ [][NextBranches]_vars

\* the branches get_branches lists, local and remote-tracking, and checkout
NextSelector ==
    \/ \E f \in Files, v \in Versions : ExternalEdit(f, v)
    \/ InitRepository(RepoDir, FALSE, TRUE)
    \/ \E ps \in SUBSET Files : AddFiles(ps)
    \/ Commit(MsgFirst, "Test User", "test@example.com")
    \/ CreateBranch(NDev, FALSE)
    \/ AddRemote(Origin, RemoteUrl)
    \/ \E o \in FetchOutcomes, b \in {NDev, NFeatureX} : FetchFromRemote(Origin, o, {b})
    \/ GetBranches
    \/ \E b \in {Master, NDev, NX} : CheckoutBranch(b)

SpecSelector == Init /\ [][NextSelector]_vars

\* the refresh and stage-all buttons while the bound repository is on disk
RefreshWhileOnDisk == (Unbound \/ kind[RepoDir] = "repo") /\ RefreshRepository

StageAllWhileOnDisk == kind[RepoDir] = "repo" /\ StageAllFiles

\* the handlers that bind a repository, over a directory that may disappear
NextBind ==
    \/ \E f \in Files, v \in Versions : ExternalEdit(f, v)
    \/ ExternalRemove
    \/ \E r, ok \in BOOLEAN : OpenRepository(RepoDir, r, ok)
    \/ OnRepoSelected(RepoDir)
    \/ RefreshWhileOnDisk
    \/ StageAllWhileOnDisk

SpecBind == Init /\ [][NextBind]_vars

\* the two dialogs, their workers, a pull and the stage-all button of the window
ClickStageAll == WindowIdle /\ StageAllFiles

NextDialogs ==
    \/ ShowCloneDialog
    \/ \E url \in {UrlNotAUrl, UrlGit} : ValidateInputs(url, RepoDir)
    \/ StartClone
    \/ \E reachable \in BOOLEAN : CloneWorkerBegin(reachable)
    \/ CloneWorkerFinish
    \/ CloneFinished
    \/ \E reply \in BOOLEAN : CloneCloseEvent(reply)
    \/ CloneDialogReject
    \/ \E ok \in BOOLEAN : OrphanCloneEnds(ok)
    \/ \E isRepo \in BOOLEAN : OpenCloneTarget(RepoDir, isRepo)
    \/ ShowInitDialog
    \/ \E bare \in BOOLEAN : InitDialogStart(RepoDir, bare)
    \/ \E ok \in BOOLEAN : InitWorkerRun(ok)
    \/ \E text \in {MsgEmpty, MsgFirst} : OnInitFinished(text)
    \/ InitDialogReject
    \/ \E reply \in BOOLEAN : PullChanges(reply)
    \/ \E o \in FetchOutcomes : DoPull(o)
    \/ ClickStageAll

SpecDialogs == Init /\ [][NextDialogs]_vars

\* ------------------------------------------------------------------ claims
\* what each operation returns when it has nothing to report
FailVal(op) ==
    CASE op \in {"get_status", "get_config"} -> EmptyDict
      [] op \in {"get_commit_history", "get_branches", "get_remotes", "get_tags",
                 "get_current_branch"} -> <<>>
      [] op = "get_git_config" -> None
      [] op = "get_user_info" ->
            [name |-> None, email |-> None, local_name |-> None, local_email |-> None]
      [] OTHER -> FALSE

\* calls that are not facade operations on a bound repository at all
LifecycleOps == {"construct", "external_edit", "load_repository", "init_repository"}

\* the last call was a configuration call of global scope
GlobalConfigCall ==
    \/ out.op = "get_config" /\ out.arg = "global"
    \/ out.op = "set_config" /\ out.arg[3] = "global"
    \/ out.op = "get_git_config" /\ out.arg[2]
    \/ out.op \in {"set_git_config", "set_user_info"} /\ out.arg[3]
    \/ out.op = "get_user_info"

NotBoundAnswer ==
    /\ out.val = FailVal(out.op)
    /\ ~out.tool
    /\ repo = None
    /\ repo_path = None

\* C1 as stated: every facade operation other than load_repository, init and
\* clone, called while no repository is loaded, answers with its failure value,
\* does not reach git and leaves the Handle unbound
C1_AsStated == (out.was = None /\ out.op \notin LifecycleOps) => NotBoundAnswer

\* C1, amended: the same for every facade operation other than load_repository,
\* init, clone, is_git_repository and the configuration calls of global scope
C1_UnboundCallsFail ==
    (out.was = None /\ out.op \notin LifecycleOps \cup {"is_git_repository"}
        /\ ~GlobalConfigCall)
    => NotBoundAnswer

C1_Witness ==
    /\ out.was = None
    /\ out.op = "commit"
    /\ out.val = FALSE
    /\ ~out.tool
    /\ repo = None

\* C2: load_repository on a path that holds no repository returns False and
\* leaves repo and repo_path cleared, whatever was loaded before
C2_FailedLoadUnbinds ==
    (out.op = "load_repository" /\ kind[out.arg] # "repo")
    => (out.val = FALSE /\ repo = None /\ repo_path = None)

C2_Witness ==
    /\ out.op = "load_repository"
    /\ out.was = RepoDir
    /\ kind[out.arg] # "repo"
    /\ out.val = FALSE
    /\ repo = None

\* the value a status field takes when it is defaulted to empty
EmptyField(q) == IF q = "is_dirty" THEN FALSE ELSE <<>>

\* C3 as stated: get_status on a loaded repository answers with every field;
\* a field whose sub-query raised is empty and every other field is the
\* repository's
C3_AsStated ==
    (out.op = "get_status" /\ out.was # None)
    => \A q \in SubQueries :
          /\ q \in DOMAIN out.val
          /\ out.val[q] = IF q \in out.arg THEN EmptyField(q)
                          ELSE StatusDict(git, wt, {})[q]

\* C4 as stated: in a repository with no commit, after add_files(paths)
\* succeeded, get_status lists every path of paths under staged_files and none
\* under untracked_files
C4_AsStated ==
    (out.op = "add_files" /\ out.val = TRUE /\ git.commits = <<>>)
    => \A f \in out.arg :
          /\ InList(f, StatusDict(git, wt, {}).staged_files)
          /\ ~InList(f, StatusDict(git, wt, {}).untracked_files)

\* the step is a successful commit with an author given, made when the index
\* differed from HEAD and the working tree held nothing else
CommitOfStagedOnly ==
    /\ out'.op = "commit"
    /\ out'.val = TRUE
    /\ out'.arg[2] # None /\ out'.arg[3] # None
    /\ \E f \in Files : git.idx[f] # HeadTree(git)[f]
    /\ Untracked(git, wt) = {}
    /\ Modified(git, wt) = {}

CleanAfter ==
    /\ StatusDict(git', wt', {}).staged_files = <<>>
    /\ StatusDict(git', wt', {}).untracked_files = <<>>
    /\ StatusDict(git', wt', {}).modified_files = <<>>
    /\ Len(HistoryList(git', 1)) = 1

\* C5 as stated, for a message m that is not blank: after such a commit(m) the
\* status lists are empty and get_commit_history(1) is one record whose
\* message is m
C5_AsStated ==
    [][(CommitOfStagedOnly /\ Strip(out'.arg[1]) # <<>>)
        => (CleanAfter /\ HistoryList(git', 1)[1].message = out'.arg[1])]_vars

\* C5, amended: the record's message is m with leading and trailing
\* whitespace removed
C5_CommitThenClean ==
    [][CommitOfStagedOnly
        => (CleanAfter /\ HistoryList(git', 1)[1].message = Strip(out'.arg[1]))]_vars

C5_Witness ==
    /\ out.op = "commit"
    /\ out.val = TRUE
    /\ out.arg[1] = MsgPadded
    /\ FilesChanged(git, HeadCommit(git)) > 0
    /\ Untracked(git, wt) = {} /\ Modified(git, wt) = {}
    /\ HistoryList(git, 1)[1].message = MsgFirst

\* C6 as stated: commit on a loaded repository returns False and creates no
\* commit when the message is blank after trimming, and when the index holds
\* nothing that HEAD lacks
C6_AsStated ==
    [][(/\ out'.op = "commit"
        /\ out'.was # None
        /\ \/ Strip(out'.arg[1]) = <<>>
           \/ \A f \in Files : git.idx[f] = HeadTree(git)[f])
       => (out'.val = FALSE /\ git'.commits = git.commits)]_vars

StageHandlers == {"stage_file", "add_to_staging"}

UnstageHandlers == {"unstage_file", "remove_from_staging", "unstage_all_files"}

\* C7 as stated: a file that one handler call staged and the next call
\* unstages is, in get_status, in the lists it was in before it was staged,
\* in a repository with no commit too
C7_AsStated ==
    [][\A f \in Files :
          (/\ out.op \in StageHandlers
           /\ f \in DOMAIN out.seen
           /\ out'.op \in UnstageHandlers
           /\ f \in out'.arg)
          => Classification(git', wt', f) = out.seen[f]]_vars

\* the names C8 has rejected
NameRuleRejects(n) ==
    \/ n = <<>>
    \/ \E i \in 1..Len(n) : n[i] \in Whitespace \cup {"~", "^", ":", "?", "*", "[", "\\"}
    \/ StartsWith(n, <<".">>) \/ StartsWith(n, <<"/">>)
    \/ EndsWith(n, <<".">>) \/ EndsWith(n, <<"/">>)
    \/ Contains(n, <<".", ".">>)

BranchEntryPoints ==
    {"create_branch", "create_new_branch", "create_branch_from", "rename_branch"}

\* the branch name the last handler was given, trimmed
TypedName ==
    Strip(CASE out.op = "create_branch" -> out.arg[1]
            [] out.op = "create_new_branch" -> out.arg
            [] OTHER -> out.arg[2])

\* C8 as stated, for a name that is not blank: a handler that creates or
\* renames a branch on an open repository shows InvalidBranchName and does not
\* reach git when the rule rejects the name, and does not show it otherwise
C8_AsStated ==
    (out.op \in BranchEntryPoints /\ out.was # None /\ TypedName # <<>>)
    => IF NameRuleRejects(TypedName)
       THEN "InvalidBranchName" \in out.msgs /\ ~out.tool
       ELSE "InvalidBranchName" \notin out.msgs

\* C9 as stated: delete_branch and delete_branch_by_name, confirmed, on the
\* branch HEAD is on show CannotDeleteCurrent and leave the branches as they are
C9_AsStated ==
    [][(/\ out'.op \in {"delete_branch", "delete_branch_by_name"}
        /\ out'.was # None
        /\ out'.arg[1] = git.cur
        /\ out'.arg[2])
       => ("CannotDeleteCurrent" \in out'.msgs /\ git'.heads = git.heads)]_vars

\* C10 as stated: switch_branch, switch_to_branch and create_branch_from move
\* HEAD to another branch over a dirty working tree only after they showed
\* DirtyWorkingTree
C10_AsStated ==
    [][(/\ out'.op \in {"switch_branch", "switch_to_branch", "create_branch_from"}
        /\ IsDirty(git, wt)
        /\ git'.cur # git.cur)
       => "DirtyWorkingTree" \in out'.msgs]_vars

\* the step is a confirmed merge_branch_to_current of a branch that exists
MergeStep ==
    /\ out'.op = "merge_branch_to_current"
    /\ out'.arg[2]
    /\ out'.arg[1] \in DOMAIN git.heads

\* C11 as stated: merging a branch that points at the commit the current branch
\* points at, with nothing staged, shows no conflict and no error and leaves
\* the current branch on a new commit whose parents are both tips
C11_AsStated ==
    [][(/\ MergeStep
        /\ git.heads[out'.arg[1]] = HeadCommit(git)
        /\ Staged(git) = {})
       => (/\ out'.msgs \cap {"Failed", "MergeConflict"} = {}
           /\ HeadCommit(git') # HeadCommit(git)
           /\ git'.commits[HeadCommit(git')].parents
                = <<HeadCommit(git), git.heads[out'.arg[1]]>>)]_vars

\* both branches changed f since the commit they share, each its own way
ConflictingPaths(g, a, b) ==
    {f \in Files :
        LET base == g.commits[MergeBase(g, a, b)].tree[f]
        IN  /\ g.commits[g.heads[a]].tree[f] # base
            /\ g.commits[g.heads[b]].tree[f] # base
            /\ g.commits[g.heads[a]].tree[f] # g.commits[g.heads[b]].tree[f]}

\* C12 as stated: a merge of a branch that conflicts with the current one, with
\* nothing staged, shows MergeConflict and creates no commit
C12_AsStated ==
    [][(/\ MergeStep
        /\ MergeBase(git, git.cur, out'.arg[1]) # 0
        /\ Staged(git) = {}
        /\ ConflictingPaths(git, git.cur, out'.arg[1]) # {})
       => (/\ "MergeConflict" \in out'.msgs
           /\ git'.commits = git.commits)]_vars

\* a clone was asked for, by any of its entry points
CloneStep ==
    out'.op \in {"clone_repository", "clone_repository_with_progress", "clone_worker"}

\* the text is no URL: no scheme and no user@host:path form
NoUrlSyntax(url) ==
    /\ ~Contains(url, <<":", "/", "/">>)
    /\ ~\E i \in 1..Len(url) : url[i] = ":" /\ \A j \in 1..(i - 1) : url[j] # "/"

\* C13: a clone with a syntactically invalid URL fails before any network
\* traffic and before any change on disk, and leaves the Handle's binding as
\* it was
C13_AsStated ==
    [][(CloneStep /\ NoUrlSyntax(out'.arg[1]))
        => /\ out'.val = FALSE
           /\ ~out'.seen["net"]
           /\ kind' = kind
           /\ repo' = repo /\ repo_path' = repo_path]_vars

\* the target of the clone exists and holds something
TargetNotEmpty(path) == kind[path] # "absent" /\ ~IsEmptyDir(path)

PushHandlerStep == out'.op \in {"_do_push", "MainWindow.push_to_remote"}

\* C15: a push the remote end rejects is reported to the user as a failure,
\* never as a success
C15_AsStated ==
    [][(PushHandlerStep /\ out'.arg[1] = "rejected")
        => ("Failed" \in out'.msgs /\ "Info" \notin out'.msgs)]_vars

\* the handlers of the window that change the repository
MutatingHandlers ==
    {"stage_all_files", "commit_changes", "commit_changes_enhanced", "_do_push",
     "MainWindow.push_to_remote"}

\* C17: a handler that changed the repository calls refresh_repository, and
\* calls it once
C17_AsStated ==
    [][(out'.op \in MutatingHandlers /\ git' # git) => out'.refreshed = 1]_vars

\* C16: what get_status has just returned on a loaded repository is the state
\* the repository and the working directory are in now, field by field,
\* whatever calls came before (staged_files being empty while there is no
\* commit to compare the index with)
C16_StatusIsFresh ==
    (out.op = "get_status" /\ out.was # None)
    => /\ out.val.is_dirty =
            \E f \in Files : git.idx[f] # HeadTree(git)[f]
                                \/ (git.idx[f] # 0 /\ wt[f] # git.idx[f])
       /\ \A f \in Files :
            /\ InList(f, out.val.untracked_files) <=> (git.idx[f] = 0 /\ wt[f] # 0)
            /\ InList(f, out.val.modified_files) <=> (git.idx[f] # 0 /\ wt[f] # git.idx[f])
            /\ InList(f, out.val.staged_files)
                    <=> (HeadCommit(git) # 0 /\ git.idx[f] # HeadTree(git)[f])
       /\ out.val.current_branch = git.cur
       /\ \A b \in NameSet : InList(b, out.val.local_branches) <=> b \in DOMAIN git.heads

\* get_status has just listed a.txt as staged on a branch made after the first
\* commit: the commit, the branch, the edit and the add before it all show
C16_Witness ==
    /\ out.op = "get_status"
    /\ out.was # None
    /\ InList("a.txt", out.val.staged_files)
    /\ InList(NDev, out.val.local_branches)
    /\ out.val.current_branch = NDev

\* C18: init_repository that has just returned True has left the Handle on
\* the path it was given
C18_InitSuccessBinds ==
    (out.op = "init_repository" /\ out.val = TRUE)
    => (repo = out.arg /\ repo_path = out.arg)

\* init_repository has just returned True for a directory that did not exist,
\* while the Handle was on another repository
C18_Witness ==
    /\ out.op = "init_repository"
    /\ out.val = TRUE
    /\ out.arg = MissingDir
    /\ out.was \notin {None, MissingDir}
    /\ repo = MissingDir

\* C19: load_repository of a path right after init_repository returned True
\* for that path returns True with the Handle on the path, and so does
\* load_repository of the path again
C19_InitThenBind ==
    [][(out'.op = "load_repository"
            /\ \/ out.op = "init_repository" /\ out.val = TRUE /\ out.arg = out'.arg
               \/ out.op = "load_repository" /\ out.val = TRUE /\ out.arg = out'.arg)
        => (out'.val = TRUE /\ repo' = out'.arg /\ repo_path' = out'.arg
            /\ repo' = repo /\ repo_path' = repo_path)]_vars

\* load_repository has just returned True for a bare repository the Handle
\* was on already
C19_Witness ==
    /\ out.op = "load_repository"
    /\ out.val = TRUE
    /\ out.was = out.arg
    /\ kind[out.arg] = "bare"

\* C20: a facade call after which repo or repo_path differs from before is
\* load_repository, init_repository or one of the two clone methods
C20_BindingFrame ==
    [][(repo' # repo \/ repo_path' # repo_path)
        => out'.op \in {"load_repository", "init_repository", "clone_repository",
                        "clone_repository_with_progress"}]_vars

\* a push has just failed on a loaded repository, which is still loaded
C20_Witness ==
    /\ out.op = "push"
    /\ out.val = FALSE
    /\ out.was = RepoDir
    /\ repo = RepoDir
    /\ repo_path = RepoDir

\* C21: get_commit_history(n) on a loaded repository returns at most n
\* records, none for n = 0 and none while there is no commit, each the record
\* of a commit HEAD reaches, newest first
C21_HistoryBounded ==
    (out.op = "get_commit_history" /\ out.was # None)
    => /\ Len(out.val) <= out.arg
       /\ git.commits = <<>> => out.val = <<>>
       /\ \A i \in 1..Len(out.val) : out.val[i].hash \in Reach(git, HeadCommit(git))
       /\ \A i, j \in 1..Len(out.val) : i < j => out.val[i].hash > out.val[j].hash

\* get_commit_history(0) has just returned [] for a repository with commits
C21_Witness ==
    /\ out.op = "get_commit_history"
    /\ out.was # None
    /\ out.arg = 0
    /\ Len(git.commits) = MaxCommits
    /\ out.val = <<>>

\* no author identity is configured, in the repository or globally
NoIdentityConfigured == \A k \in CfgKeys : k \notin DOMAIN gcfg \cup DOMAIN git.lcfg

\* C22: commit without a full author identity from the caller and with none
\* configured fails and creates no commit
C22_AsStated ==
    [][(/\ out'.op = "commit"
        /\ (out'.arg[2] = None \/ out'.arg[3] = None)
        /\ NoIdentityConfigured)
        => (out'.val = FALSE /\ git'.commits = git.commits)]_vars

\* the list get_recent_repositories() returns
RecentList == RecentRepositories(config_manager)

\* how many times x is in l
Occurrences(x, l) == Cardinality({i \in 1..Len(l) : l[i] = x})

\* C23 as stated: after add_recent_repository(p, max_count) the list holds p
\* once, first, and has at most max_count entries, whatever max_count is
C23_AsStated ==
    out.op = "add_recent_repository"
    => /\ Occurrences(out.arg[1], RecentList) = 1
       /\ RecentList[1] = out.arg[1]
       /\ Len(RecentList) <= out.arg[2]

\* C23: after add_recent_repository(p, max_count) with max_count >= 1 the list
\* holds p once, as its first element, and has at most max_count entries; and
\* after any sequence of additions and removals no path is in the list twice
C23_RecentList ==
    /\ (out.op = "add_recent_repository" /\ out.arg[2] >= 1)
       => /\ Occurrences(out.arg[1], RecentList) = 1
          /\ RecentList[1] = out.arg[1]
          /\ Len(RecentList) <= out.arg[2]
    /\ \A p \in Paths : Occurrences(p, RecentList) <= 1

\* a path already in the list was added again and the list is full
C23_Witness ==
    /\ out.op = "add_recent_repository" /\ out.arg = <<RepoDir, MaxRecent>>
    /\ RecentList = <<RepoDir, PlainDir>>

\* C30: after reset_to_defaults() get(key) is the built-in default of every
\* default key, whatever set() calls came before
C30_AsStated ==
    out.op = "reset_to_defaults"
    => \A key \in ConfigKeys :
          ConfigValue(config_manager, key) = BuiltinDefaults[key[1]][key[2]]

\* the untracked and the modified paths of get_status()
ToStage(g, w) == Untracked(g, w) \cup Modified(g, w)

\* C24: stage_all() does to the index what add_files(U + M) would do, U and M
\* being the untracked and modified paths when it is called: both succeed or
\* fail together and leave the same index
C24_AsStated ==
    [][(out'.op = "stage_all" /\ ~Unbound)
        => /\ out'.val = AddFilesOk(ToStage(git, wt))
           /\ git'.idx = IF AddFilesOk(ToStage(git, wt))
                         THEN IndexAdd(git, wt, ToStage(git, wt)).idx ELSE git.idx]_vars

\* C27: a create_branch that reports failure leaves the local branches and the
\* current branch as they were
C27_AsStated ==
    [][(out'.op = "create_branch" /\ out'.val = FALSE)
        => (DOMAIN git'.heads = DOMAIN git.heads /\ git'.cur = git.cur)]_vars

\* nothing to commit and nothing untracked
CleanTree(g, w) == ~IsDirty(g, w) /\ Untracked(g, w) = {}

\* C28: checkout_branch(b) of a name b that get_branches() lists, on a clean
\* working tree, succeeds and makes b the current branch
C28_AsStated ==
    [][(/\ out'.op = "checkout_branch"
        /\ ~Unbound
        /\ InList(out'.arg, BranchList(git))
        /\ CleanTree(git, wt))
        => (out'.val = TRUE /\ git'.cur = out'.arg)]_vars

\* the handlers that try to bind a repository
BindHandlers == {"on_repo_selected", "open_repository", "on_repository_cloned"}

\* C29: when a handler that tried to bind a repository has returned and the
\* Handle is unbound, the file lists of the window are those of the
\* no-repository view
C29_AsStated ==
    (out.op \in BindHandlers /\ Unbound)
    => (ui.working_files = <<>> /\ ui.staged_files = <<>>)

\* a long-running operation is in flight on the window's GitManager: the init
\* worker runs on it, or a pull is pending on it
InFlightOnManager == InitWorkerRunning \/ dialogs.pull

\* C25: while a long-running operation is running on a GitManager, the
\* presentation layer starts no second long-running operation and no mutating
\* operation on that GitManager
C25_AsStated ==
    [][InFlightOnManager =>
          /\ ~(out'.op = "stage_all_files" /\ out'.tool)
          /\ ~(~dialogs.pull /\ dialogs'.pull)
          /\ ~(~InitWorkerRunning /\ dialogs'.init.worker = "running")]_vars

\* a clone was cancelled before it completed: the dialog is closed, its worker
\* terminated, and the target directory is as far as git clone had got
CloneCancelled(p) ==
    /\ dialogs.clone.worker = "terminated" /\ ~dialogs.clone.open
    /\ dialogs.clone.target = p /\ kind[p] = "partial"

====
